---- MODULE Spec2Model ----
(***************************************************************************)
(* A model of sepa.js: the IBAN / creditor-id checksum engine              *)
(* (lib/utils/utils.js), the field assertions (lib/utils/assert.js) and    *)
(* the Document -> PaymentInfo -> Transaction aggregate (lib/sepa.js).     *)
(*                                                                         *)
(* Strings are sequences of character codes (ASCII): "DE" is <<68, 69>>.   *)
(***************************************************************************)
EXTENDS Integers, Sequences, FiniteSets, TLC

(***************************************************************************)
(* Characters and JavaScript string primitives                             *)
(***************************************************************************)
Digit == 48..57
Upper == 65..90
Lower == 97..122

\* The value JavaScript calls NaN (parseInt of a non-digit, and all arithmetic on it).
NaN == 0 - 1

\* String.prototype.toUpperCase, one character (ASCII).
toUpperCase(c) == IF c \in Lower THEN c - 32 ELSE c

\* String.prototype.substr(start): the characters from index start (0-based) on.
substrFrom(s, start) == SubSeq(s, start + 1, Len(s))

\* String.prototype.substr(start, length), start >= 0.
substr(s, start, length) ==
  LET last == IF start + length < Len(s) THEN start + length ELSE Len(s)
  IN SubSeq(s, start + 1, last)

\* String.prototype.substr(-n, n): the last n characters (all of s when shorter).
substrLast(s, n) == IF Len(s) <= n THEN s ELSE SubSeq(s, Len(s) - n + 1, Len(s))

\* Number to its decimal string (template literal / string concatenation of a
\* non-negative integer).
RECURSIVE numberToString(_)
numberToString(n) ==
  IF n < 10 THEN <<48 + n>> ELSE numberToString(n \div 10) \o <<48 + (n % 10)>>

(***************************************************************************)
(* lib/utils/utils.js                                                      *)
(***************************************************************************)
\* sepaScheme.indexOf(char) for sepaScheme = '0123456789ABC...XYZ'.
sepaSchemeIndexOf(c) ==
  IF c \in Digit THEN c - 48
  ELSE IF c \in Upper THEN c - 55
  ELSE 0 - 1

RECURSIVE replaceChars(_)
replaceChars(value) ==
  IF value = <<>> THEN <<>>
  ELSE LET char == toUpperCase(Head(value))
           charIndex == sepaSchemeIndexOf(char)
       IN (IF charIndex >= 10 THEN numberToString(charIndex) ELSE <<char>>)
            \o replaceChars(Tail(value))

\* Mutant: the modulus written 96.
modulo97StepOffByOne(result, char) ==
  IF result = NaN \/ char \notin Digit THEN NaN
  ELSE (result * 10 + (char - 48)) % 96

\* One step of modulo97's forEach: result = (result * 10 + parseInt(char, 10)) % 97.
modulo97Step(result, char) ==
  IF result = NaN \/ char \notin Digit THEN NaN
  ELSE (result * 10 + (char - 48)) % 97

RECURSIVE modulo97From(_, _)
modulo97From(result, value) ==
  IF value = <<>> \/ result = NaN THEN result
  ELSE modulo97From(modulo97Step(result, toUpperCase(Head(value))), Tail(value))

modulo97(value) == modulo97From(0, value)

validateIBAN(iban) ==
  LET ibrev == substrFrom(iban, 4) \o substr(iban, 0, 4)
  IN modulo97(replaceChars(ibrev)) = 1

\* Mutant: the check digits without the zero padding, `${98 - mod}`.
checkDigitsUnpadded(mod) ==
  IF mod = NaN THEN <<78, 97, 78>> ELSE numberToString(98 - mod)

\* `0${98 - mod}`.substr(-2, 2); with mod NaN the template is "0NaN".
checkDigits(mod) ==
  IF mod = NaN THEN <<97, 78>>
  ELSE substrLast(<<48>> \o numberToString(98 - mod), 2)

\* Mutant: the check characters of the input enter the remainder.
checksumIBANKeepingCheckDigits(iban) ==
  LET ibrev == substrFrom(iban, 4) \o substr(iban, 0, 4)
      mod == modulo97(replaceChars(ibrev))
  IN substr(iban, 0, 2) \o checkDigits(mod) \o substrFrom(iban, 4)

checksumIBAN(iban) ==
  LET ibrev == substrFrom(iban, 4) \o substr(iban, 0, 2) \o <<48, 48>>
      mod == modulo97(replaceChars(ibrev))
  IN substr(iban, 0, 2) \o checkDigits(mod) \o substrFrom(iban, 4)

\* Mutant: the creditor id rearranged with the IBAN's 4-character prefix.
validateCreditorIDAsIban(cid) ==
  LET cidRev == substrFrom(cid, 4) \o substr(cid, 0, 4)
  IN modulo97(replaceChars(cidRev)) = 1

validateCreditorID(cid) ==
  LET cidRev == substrFrom(cid, 7) \o substr(cid, 0, 4)
  IN modulo97(replaceChars(cidRev)) = 1

checksumCreditorID(cid) ==
  LET cidrev == substrFrom(cid, 7) \o substr(cid, 0, 2) \o <<48, 48>>
      mod == modulo97(replaceChars(cidrev))
  IN substr(cid, 0, 2) \o checkDigits(mod) \o substrFrom(cid, 4)

\* getPainXMLVersion: parseInt(painFormat.substr(-2), 10), plus 1 for pain.008.
startsWith(s, prefix) == Len(s) >= Len(prefix) /\ SubSeq(s, 1, Len(prefix)) = prefix

\* parseInt(s, 10) of a one- or two-character string of digits.
parseInt2(s) ==
  IF s = <<>> \/ s[1] \notin Digit THEN NaN
  ELSE IF Len(s) = 1 \/ s[2] \notin Digit THEN s[1] - 48
  ELSE (s[1] - 48) * 10 + (s[2] - 48)

\* Mutant: the increment for pain.008 forgotten.
getPainXMLVersionWithoutIncrement(painFormat) == parseInt2(substrLast(painFormat, 2))

getPainXMLVersion(painFormat) ==
  LET incrementation ==
        IF startsWith(painFormat, <<112, 97, 105, 110, 46, 48, 48, 56>>) THEN 1 ELSE 0
      parsed == parseInt2(substrLast(painFormat, 2))
  IN IF parsed = NaN THEN NaN ELSE parsed + incrementation

\* The characters /\w| |\.|\+|\?|\/|:|\(|\)|,+/ matches: \w is [A-Za-z0-9_].
PermittedChars ==
  Digit \cup Upper \cup Lower \cup {95, 32, 46, 43, 63, 47, 58, 40, 41, 44}

IsPermitted(c) == c \in PermittedChars

\* (stringToFilter.match(/.../g) || []).join(''): the permitted characters, in order.
filterOutInvalidCharacters(stringToFilter) == SelectSeq(stringToFilter, IsPermitted)

(***************************************************************************)
(* JavaScript values that reach the assertions: a string, a number, null.  *)
(***************************************************************************)
Str(s) == [t |-> "string", v |-> s]
Num(n) == [t |-> "number", v |-> n]
JsNull == [t |-> "null", v |-> 0]
Bool(b) == [t |-> "boolean", v |-> b]

\* ToBoolean.
truthy(value) ==
  CASE value.t = "string" -> value.v # <<>>
    [] value.t = "number" -> value.v # 0
    [] value.t = "boolean" -> value.v
    [] OTHER -> FALSE

\* value.length: defined for a string only (undefined compares as NaN).
lengthOf(value) == IF value.t = "string" THEN Len(value.v) ELSE NaN

\* The bound null (`min !== null` is false for it).
Null == 0 - 2

\* a < b on numbers, false as soon as one side is NaN (an array, a non-numeric
\* string or undefined converted to a number).
jsLess(a, b) == a # NaN /\ b # NaN /\ a < b

(***************************************************************************)
(* lib/utils/assert.js: each operator is TRUE when the assertion throws.   *)
(***************************************************************************)
assertFixedThrows(val, choices) == val \notin choices

assertLengthThrows(value, min, max) ==
  \/ (min # Null /\ truthy(value) /\ jsLess(lengthOf(value), min))
  \/ (max # Null /\ truthy(value) /\ jsLess(max, lengthOf(value)))

\* Amounts: a non-negative number with three decimals, [u |-> units, m |-> thousandths],
\* so 50.23 is Amount(50, 230).
Amount(u, m) == [u |-> u, m |-> m]

amountLess(a, b) == a.u < b.u \/ (a.u = b.u /\ a.m < b.m)

\* a + b
amountAdd(a, b) ==
  LET m == a.m + b.m
  IN [u |-> a.u + b.u + (m \div 1000), m |-> m % 1000]

\* 0.01 and 999999999.99
AmountMin == Amount(0, 10)
AmountMax == Amount(999999999, 990)

\* Mutant: the upper limit itself is rejected.
assertRangeThrowsAtMax(num, min, max) == amountLess(num, min) \/ ~amountLess(num, max)

\* assertRange: num < min || num > max.
assertRangeThrows(num, min, max) == amountLess(num, min) \/ amountLess(max, num)

\* validateIBAN / validateCreditorID of the strings the callers of this model
\* use are computed once; any other string is computed on the spot.
KnownIbans ==
  {<<68, 69, 56, 55, 49, 50, 51, 52, 53, 54, 55, 56, 49, 50, 51, 52, 53, 54, 55, 56, 57, 48>>,
   <<68, 69, 52, 48, 57, 56, 55, 54, 53, 52, 51, 50, 57, 56, 55, 54, 53, 52, 51, 50, 49, 48>>,
   <<70, 82, 55, 54, 51, 48, 48, 48, 54, 48, 48, 48, 48, 49, 49, 50, 51, 52, 53, 54, 55, 56, 57, 48, 49, 56, 57>>,
   <<68, 69, 56, 55, 49, 50, 51, 52, 53, 54, 55, 56, 49, 50, 51, 52, 53, 54, 55, 56, 57, 49>>}
KnownValidIbans == {iban \in KnownIbans : validateIBAN(iban)}
KnownCids == {<<68, 69, 57, 56, 90, 90, 90, 48, 57, 57, 57, 57, 57, 57, 57, 57, 57, 57>>}
KnownValidCids == {cid \in KnownCids : validateCreditorID(cid)}

assertIbanThrows(iban) ==
  IF iban \in KnownIbans THEN iban \notin KnownValidIbans ELSE ~validateIBAN(iban)

assertCidThrows(cid) ==
  IF cid \in KnownCids THEN cid \notin KnownValidCids ELSE ~validateCreditorID(cid)

\* Dates are "null" (not set) or "date" (a Date object).
assertDateThrows(date) == date # "date"

\* [A-Za-z0-9|+|?|/|\-|:|(|)|.|,|'| ] and the same without the space.
SepaIdSet2Chars ==
  Digit \cup Upper \cup Lower \cup {124, 43, 63, 47, 45, 58, 40, 41, 46, 44, 39}
SepaIdSet1Chars == SepaIdSet2Chars \cup {32}

SepaIdMaxLength == 35

matchesSepaId(sepaId, chars) ==
  /\ Len(sepaId) >= 1
  /\ Len(sepaId) <= SepaIdMaxLength
  /\ \A i \in 1..Len(sepaId) : sepaId[i] \in chars

assertSepaIdSet1Throws(sepaId) == ~matchesSepaId(sepaId, SepaIdSet1Chars) \/ sepaId = <<>>

assertSepaIdSet2Throws(sepaId) == ~matchesSepaId(sepaId, SepaIdSet2Chars)

(***************************************************************************)
(* lib/sepa.js: XML nodes.  An element is [tag, text, kids]; text is the   *)
(* element's textContent, <<>> when none was set.                          *)
(***************************************************************************)
Element(tag, text, kids) == [tag |-> tag, text |-> text, kids |-> kids]

\* Number.prototype.toFixed(2): the amount rounded to two decimals, as a string,
\* e.g. Amount(50, 230) -> "50.23".
roundToCents(amount) ==
  LET cents == (amount.m + 5) \div 10
  IN [u |-> amount.u + (cents \div 100), c |-> cents % 100]

toFixed2(amount) ==
  LET r == roundToCents(amount)
  IN numberToString(r.u) \o <<46>> \o <<48 + (r.c \div 10), 48 + (r.c % 10)>>

\* amount == amount.toFixed(2): the amount equals its own two-decimal rounding.
equalsToFixed2(amount) ==
  LET r == roundToCents(amount)
  IN r.u = amount.u /\ r.c * 10 = amount.m

\* What `lastNode.textContent = value` writes for a value of the model.
textOf(value) ==
  CASE value.t = "string" -> value.v
    [] value.t = "number" -> numberToString(value.v)
    [] OTHER -> <<>>

\* addNode with a one-element path: the text is set only `if (value)`.
requiredNode(tag, value) ==
  Element(tag, IF truthy(value) THEN textOf(value) ELSE <<>>, <<>>)

\* addNode with optional: true: no node at all for a falsy value.
optionalNode(tag, value) ==
  IF truthy(value) THEN <<requiredNode(tag, value)>> ELSE <<>>

containerNode(tag, kids) == Element(tag, <<>>, kids)

(***************************************************************************)
(* lib/sepa.js: module state and entities                                  *)
(***************************************************************************)
DefaultIdSeparator == <<46>>

PaymentInfoTypes == [DirectDebit |-> "DD", Transfer |-> "TRF"]
TransactionTypes == [DirectDebit |-> "DrctDbtTxInf", Transfer |-> "CdtTrfTxInf"]

\* 'pain.001'
PainTransferPrefix == <<112, 97, 105, 110, 46, 48, 48, 49>>

isTransferFormat(painFormat) == startsWith(painFormat, PainTransferPrefix)

Range(f) == {f[i] : i \in DOMAIN f}

\* SEPATypes: pain format -> tag of the message root element, in the order of
\* the source's table.
SEPATypes ==
  << <<<<112, 97, 105, 110, 46, 48, 48, 49, 46, 48, 48, 49, 46, 48, 50>>, "pain.001.001.02">>,
     <<<<112, 97, 105, 110, 46, 48, 48, 49, 46, 48, 48, 51, 46, 48, 50>>, "pain.001.003.02">>,
     <<<<112, 97, 105, 110, 46, 48, 48, 49, 46, 48, 48, 49, 46, 48, 51>>, "CstmrCdtTrfInitn">>,
     <<<<112, 97, 105, 110, 46, 48, 48, 49, 46, 48, 48, 51, 46, 48, 51>>, "CstmrCdtTrfInitn">>,
     <<<<112, 97, 105, 110, 46, 48, 48, 56, 46, 48, 48, 49, 46, 48, 49>>, "pain.008.001.01">>,
     <<<<112, 97, 105, 110, 46, 48, 48, 56, 46, 48, 48, 51, 46, 48, 49>>, "pain.008.003.01">>,
     <<<<112, 97, 105, 110, 46, 48, 48, 56, 46, 48, 48, 49, 46, 48, 50>>, "CstmrDrctDbtInitn">>,
     <<<<112, 97, 105, 110, 46, 48, 48, 56, 46, 48, 48, 51, 46, 48, 50>>, "CstmrDrctDbtInitn">> >>

Undefined == "undefined"

\* SEPATypes[painFormat]: undefined for a key the table does not hold.
typeOf(painFormat) ==
  IF \E i \in DOMAIN SEPATypes : SEPATypes[i][1] = painFormat
  THEN (CHOOSE entry \in Range(SEPATypes) : entry[1] = painFormat)[2]
  ELSE Undefined

\* new SepaGroupHeader(painFormat)
SepaGroupHeader(painFormat) ==
  [ painFormat |-> painFormat,
    id |-> <<>>,
    created |-> "unset",
    transactionCount |-> 0,
    initiatorName |-> <<>>,
    controlSum |-> Amount(0, 0),
    batchBooking |-> TRUE,
    grouping |-> <<77, 73, 88, 68>>,
    organisationId |-> JsNull ]

\* new SepaPaymentInfo(painFormat)
SepaPaymentInfo(painFormat) ==
  [ painFormat |-> painFormat,
    method |-> IF isTransferFormat(painFormat)
               THEN PaymentInfoTypes.Transfer ELSE PaymentInfoTypes.DirectDebit,
    payments |-> <<>>,
    id |-> <<>>,
    batchBooking |-> TRUE,
    controlSum |-> Amount(0, 0),
    localInstrumentation |-> "CORE",
    sequenceType |-> "FRST",
    collectionDate |-> "null",
    requestedExecutionDate |-> "null",
    creditorId |-> <<>>,
    creditorName |-> <<>>,
    creditorIBAN |-> <<>>,
    creditorBIC |-> <<>>,
    debtorId |-> <<>>,
    debtorName |-> <<>>,
    debtorIBAN |-> <<>>,
    debtorBIC |-> <<>> ]

\* new SepaTransaction(painFormat)
SepaTransaction(painFormat) ==
  [ painFormat |-> painFormat,
    type |-> IF isTransferFormat(painFormat)
             THEN TransactionTypes.Transfer ELSE TransactionTypes.DirectDebit,
    id |-> <<>>,
    end2endId |-> <<>>,
    amount |-> Amount(0, 0),
    purposeCode |-> JsNull,
    mandateId |-> <<>>,
    mandateSignatureDate |-> "null",
    ammendment |-> JsNull,
    debtorName |-> <<>>,
    debtorStreet |-> JsNull,
    debtorCity |-> JsNull,
    debtorCountry |-> JsNull,
    debtorIBAN |-> <<>>,
    debtorBIC |-> <<>>,
    remittanceInfo |-> <<>>,
    creditorName |-> <<>>,
    creditorStreet |-> JsNull,
    creditorCity |-> JsNull,
    creditorCountry |-> JsNull,
    creditorIBAN |-> <<>>,
    creditorBIC |-> <<>> ]

\* this[`${pullFrom}X`] of a PaymentInfo: the creditor's for direct debit, the
\* debtor's for transfer.
ownIBAN(pi) == IF pi.method = PaymentInfoTypes.DirectDebit THEN pi.creditorIBAN ELSE pi.debtorIBAN
ownBIC(pi) == IF pi.method = PaymentInfoTypes.DirectDebit THEN pi.creditorBIC ELSE pi.debtorBIC
ownId(pi) == IF pi.method = PaymentInfoTypes.DirectDebit THEN pi.creditorId ELSE pi.debtorId
ownName(pi) == IF pi.method = PaymentInfoTypes.DirectDebit THEN pi.creditorName ELSE pi.debtorName

\* this[`${pullFrom}X`] of a Transaction: the creditor's for transfer, the
\* debtor's for direct debit.
otherIBAN(tx) == IF tx.type = TransactionTypes.Transfer THEN tx.creditorIBAN ELSE tx.debtorIBAN
otherBIC(tx) == IF tx.type = TransactionTypes.Transfer THEN tx.creditorBIC ELSE tx.debtorBIC
otherName(tx) == IF tx.type = TransactionTypes.Transfer THEN tx.creditorName ELSE tx.debtorName
otherStreet(tx) == IF tx.type = TransactionTypes.Transfer THEN tx.creditorStreet ELSE tx.debtorStreet
otherCity(tx) == IF tx.type = TransactionTypes.Transfer THEN tx.creditorCity ELSE tx.debtorCity
otherCountry(tx) == IF tx.type = TransactionTypes.Transfer THEN tx.creditorCountry ELSE tx.debtorCountry

\* Mutant: the position is used even when the object has an id of its own.
childIdAlwaysCounted(parentId, separator, givenId, count) ==
  parentId \o separator \o numberToString(count)

\* Mutant: the parent's id is left out.
childIdWithoutParent(parentId, separator, givenId, count) ==
  IF givenId # <<>>
  THEN separator \o givenId
  ELSE separator \o numberToString(count)

\* The id addPaymentInfo / addTransaction assign: parent id + separator +
\* (own id when set, else the number of items already in the list).
childId(parentId, separator, givenId, count) ==
  IF givenId # <<>>
  THEN parentId \o separator \o givenId
  ELSE parentId \o separator \o numberToString(count)

\* Mutant: the first two characters of the BIC are taken for its country.
countryMatchesFirstTwo(bic, iban) ==
  Len(bic) = 0 \/ substr(bic, 0, 2) = substr(iban, 0, 2)

\* countryMatches of SepaPaymentInfo.handleSpecialCharsAndValidate.
countryMatches(bic, iban) == Len(bic) = 0 \/ substr(bic, 4, 2) = substr(iban, 0, 2)

NoError == "none"
CountryMismatch == "country mismatch in BIC/IBAN"

\* The sanitizing half of SepaPaymentInfo.handleSpecialCharsAndValidate.
\* substring(0, 70), substring(0, 2) and substring(0, 140) of the sanitizing halves.
MaxNameLength == 70
CountryLength == 2
MaxRemittanceLength == 140

\* Mutant: the characters removed first, the first n characters kept then.
truncatedAndFilteredInReverse(text, n) == substr(filterOutInvalidCharacters(text), 0, n)

\* utils.filterOutInvalidCharacters(text.substring(0, n))
truncatedAndFiltered(text, n) == filterOutInvalidCharacters(substr(text, 0, n))

sanitizePaymentInfo(pi) ==
  LET name == truncatedAndFiltered(ownName(pi), MaxNameLength)
      filtered == [pi EXCEPT !.id = filterOutInvalidCharacters(pi.id)]
  IN IF pi.method = PaymentInfoTypes.DirectDebit
     THEN [filtered EXCEPT !.creditorName = name]
     ELSE [filtered EXCEPT !.debtorName = name]

\* The asserting half: the message of the first assertion that throws, in the
\* code's order, or NoError.
paymentInfoError(pi) ==
  CASE assertFixedThrows(pi.localInstrumentation, {"CORE", "COR1", "B2B", "SDCL", "ONCL"})
         -> "localInstrumentation must have any value of"
    [] assertFixedThrows(pi.sequenceType, {"FRST", "RCUR", "OOFF", "FNAL"})
         -> "sequenceType must have any value of"
    [] assertIbanThrows(ownIBAN(pi)) -> "has invalid IBAN"
    [] pi.method = PaymentInfoTypes.DirectDebit /\ assertDateThrows(pi.collectionDate)
         -> "collectionDate has invalid date"
    [] pi.method = PaymentInfoTypes.DirectDebit /\ assertCidThrows(ownId(pi))
         -> "creditorId is invalid"
    [] pi.method # PaymentInfoTypes.DirectDebit /\ assertDateThrows(pi.requestedExecutionDate)
         -> "requestedExecutionDate has invalid date"
    \* assertLength(bic, [0, 8, 11], 'creditorBIC'): min is an array, max a name.
    [] assertLengthThrows(Str(ownBIC(pi)), NaN, NaN) -> "BIC has invalid string length"
    [] ~countryMatches(ownBIC(pi), ownIBAN(pi)) -> CountryMismatch
    [] assertLengthThrows(Str(pi.id), 0, SepaIdMaxLength) -> "id has invalid string length"
    [] assertLengthThrows(Num(Len(pi.payments)), 1, Null)
         -> "_payments has invalid string length"
    [] OTHER -> NoError

\* `if (v && v.length > 0) v = v.substring(0, n)` for a value that is null or a string.
truncated(value, n) ==
  IF truthy(value) THEN Str(substr(value.v, 0, n)) ELSE value

\* The sanitizing half of SepaTransaction.handleSpecialCharsAndValidate.
sanitizeTransaction(tx) ==
  LET transfer == tx.type = TransactionTypes.Transfer
      name == truncatedAndFiltered(otherName(tx), MaxNameLength)
      street == truncated(otherStreet(tx), MaxNameLength)
      city == truncated(otherCity(tx), MaxNameLength)
      country == truncated(otherCountry(tx), CountryLength)
      common == [tx EXCEPT !.id = filterOutInvalidCharacters(tx.id),
                           !.end2endId = filterOutInvalidCharacters(tx.end2endId),
                           !.mandateId = filterOutInvalidCharacters(tx.mandateId),
                           !.remittanceInfo =
                             truncatedAndFiltered(tx.remittanceInfo, MaxRemittanceLength)]
  IN IF transfer
     THEN [common EXCEPT !.creditorName = name, !.creditorStreet = street,
                         !.creditorCity = city, !.creditorCountry = country]
     ELSE [common EXCEPT !.debtorName = name, !.debtorStreet = street,
                         !.debtorCity = city, !.debtorCountry = country]

\* The asserting half, as for paymentInfoError.
transactionError(tx) ==
  CASE assertSepaIdSet1Throws(tx.end2endId) -> "end2endId doesn't match sepa id charset type 1"
    [] assertRangeThrows(tx.amount, AmountMin, AmountMax) -> "amount does not match range"
    [] ~equalsToFixed2(tx.amount) -> "amount has too many fractional digits"
    [] assertLengthThrows(tx.purposeCode, 1, 4) -> "purposeCode has invalid string length"
    [] assertSepaIdSet2Throws(tx.mandateId) -> "mandateId doesn't match sepa id charset type 2"
    [] assertDateThrows(tx.mandateSignatureDate) -> "mandateSignatureDate has invalid date"
    [] assertIbanThrows(otherIBAN(tx)) -> "has invalid IBAN"
    [] OTHER -> NoError

(***************************************************************************)
(* lib/sepa.js: serialization.  pis and txs are the PaymentInfo and        *)
(* Transaction objects that exist (a reference is an index); serializing   *)
(* walks the lists in order, sanitizes each object in place, and stops at  *)
(* the first assertion that throws.                                        *)
(***************************************************************************)
NotProvided == <<78, 79, 84, 80, 82, 79, 86, 73, 68, 69, 68>>

\* `${name}Agt`: FinInstnId with BIC and, when a country is set, PstlAdr/Ctry; or
\* FinInstnId/Othr/Id = NOTPROVIDED without a BIC.
agentNode(tag, bic, country) ==
  IF bic # <<>>
  THEN containerNode(tag,
         <<containerNode("FinInstnId",
             <<requiredNode("BIC", Str(bic))>>
             \o (IF truthy(country)
                 THEN <<containerNode("PstlAdr", <<requiredNode("Ctry", country)>>)>>
                 ELSE <<>>))>>)
  ELSE containerNode(tag,
         <<containerNode("FinInstnId",
             <<containerNode("Othr", <<requiredNode("Id", Str(NotProvided))>>)>>)>>)

accountNode(tag, iban) ==
  containerNode(tag, <<containerNode("Id", <<requiredNode("IBAN", Str(iban))>>)>>)

\* The date part of Date.prototype.toISOString of the one date of the model.
IsoDate == <<50, 48, 49, 52, 45, 48, 50, 45, 48, 49>>
IsoDateTime == <<50, 48, 49, 52, 45, 48, 50, 45, 48, 49, 84, 48, 48, 58, 48, 48, 58, 48, 48, 46, 48, 48, 48, 90>>

\* The PstlAdr of SepaTransaction.toXML: Ctry and two AdrLine, read from the
\* debtor fields whatever the type of the transaction.
postalAddress(tx) ==
  containerNode("PstlAdr",
    <<requiredNode("Ctry", tx.debtorCountry),
      requiredNode("AdrLine", tx.debtorStreet),
      requiredNode("AdrLine", tx.debtorCity)>>)

\* SepaTransaction.toXML after handleSpecialCharsAndValidate (the Ccy attribute
\* of InstdAmt is not part of the tree of the model).
transactionNode(tx) ==
  LET transfer == tx.type = TransactionTypes.Transfer
      recieverNodeName == IF transfer THEN "Cdtr" ELSE "Dbtr"
      paymentId == containerNode("PmtId",
                     <<requiredNode("InstrId", Str(tx.id)),
                       requiredNode("EndToEndId", Str(tx.end2endId))>>)
      amendment == IF truthy(tx.ammendment)
                   THEN <<requiredNode("AmdmntInd", Str(<<116, 114, 117, 101>>)),
                          requiredNode("AmdmnInfDtls", tx.ammendment)>>
                   ELSE <<requiredNode("AmdmntInd", Str(<<102, 97, 108, 115, 101>>))>>
      amount == IF transfer
                THEN <<containerNode("Amt", <<requiredNode("InstdAmt", Str(toFixed2(tx.amount)))>>)>>
                ELSE <<requiredNode("InstdAmt", Str(toFixed2(tx.amount))),
                       containerNode("DrctDbtTx",
                         <<containerNode("MndtRltdInf",
                             <<requiredNode("MndtId", Str(tx.mandateId)),
                               requiredNode("DtOfSgntr", Str(IsoDate))>>
                             \o amendment)>>)>>
      reciever == containerNode(recieverNodeName,
                    <<requiredNode("Nm", Str(otherName(tx)))>>
                    \o (IF truthy(otherStreet(tx)) /\ truthy(otherCity(tx))
                           /\ truthy(otherCountry(tx))
                        THEN <<postalAddress(tx)>> ELSE <<>>))
  IN Element(tx.type, <<>>,
       <<paymentId>> \o amount
         \o <<agentNode(recieverNodeName \o "Agt", otherBIC(tx), otherCountry(tx)),
              reciever,
              accountNode(recieverNodeName \o "Acct", otherIBAN(tx)),
              containerNode("RmtInf", <<requiredNode("Ustrd", Str(tx.remittanceInfo))>>)>>
         \o (IF truthy(tx.purposeCode)
             THEN <<containerNode("Purp", <<requiredNode("Cd", tx.purposeCode)>>)>>
             ELSE <<>>))

\* get transactionCount() { return this.payments.length; }
transactionCount(pi) == Len(pi.payments)

\* The part of SepaPaymentInfo.toXML before the transactions.
paymentInfoHead(pi) ==
  LET emitterNodeName == IF pi.method = PaymentInfoTypes.DirectDebit THEN "Cdtr" ELSE "Dbtr"
  IN <<requiredNode("PmtInfId", Str(pi.id)),
       requiredNode("PmtMtd", Str(IF pi.method = PaymentInfoTypes.DirectDebit
                                  THEN <<68, 68>> ELSE <<84, 82, 70>>))>>
     \o (IF getPainXMLVersion(pi.painFormat) = 3
         THEN <<requiredNode("BtchBookg", Str(IF pi.batchBooking THEN <<116, 114, 117, 101>>
                                                  ELSE <<102, 97, 108, 115, 101>>)),
                requiredNode("NbOfTxs", Num(transactionCount(pi))),
                requiredNode("CtrlSum", Str(toFixed2(pi.controlSum)))>>
         ELSE <<>>)
     \o <<accountNode(emitterNodeName \o "Acct", ownIBAN(pi)),
          agentNode(emitterNodeName \o "Agt", ownBIC(pi), JsNull)>>

\* Mutant: the child inserted before the children already there.
insertFirst(kids, node) == <<node>> \o kids

\* Node.appendChild: the new child comes after the children already there.
appendChild(kids, node) == Append(kids, node)

\* payments.forEach(payment => pmtInf.appendChild(payment.toXML(document))):
\* nodes are the children appended so far.
RECURSIVE serializeTransactions(_, _, _)
serializeTransactions(heap, refs, nodes) ==
  IF refs = <<>> THEN [txs |-> heap, error |-> NoError, nodes |-> nodes]
  ELSE LET t == Head(refs)
           tx == sanitizeTransaction(heap[t])
           err == transactionError(tx)
       IN IF err # NoError
          THEN [txs |-> [heap EXCEPT ![t] = tx], error |-> err, nodes |-> <<>>]
          ELSE serializeTransactions([heap EXCEPT ![t] = tx], Tail(refs),
                                     appendChild(nodes, transactionNode(tx)))

\* SepaPaymentInfo.toXML of each block, in the document's order: nodes are the
\* PmtInf elements appended so far.
RECURSIVE serializePaymentInfos(_, _, _, _)
serializePaymentInfos(piHeap, txHeap, refs, nodes) ==
  IF refs = <<>> THEN [pis |-> piHeap, txs |-> txHeap, error |-> NoError, nodes |-> nodes]
  ELSE LET p == Head(refs)
           pi == sanitizePaymentInfo(piHeap[p])
           err == paymentInfoError(pi)
       IN IF err # NoError
          THEN [pis |-> [piHeap EXCEPT ![p] = pi], txs |-> txHeap, error |-> err, nodes |-> <<>>]
          ELSE LET own == serializeTransactions(txHeap, pi.payments, paymentInfoHead(pi))
               IN IF own.error # NoError
                  THEN [pis |-> [piHeap EXCEPT ![p] = pi], txs |-> own.txs,
                        error |-> own.error, nodes |-> <<>>]
                  ELSE serializePaymentInfos([piHeap EXCEPT ![p] = pi], own.txs, Tail(refs),
                                             appendChild(nodes, Element("PmtInf", <<>>, own.nodes)))

\* SepaPaymentInfo.normalize: controlSum = the sum of the payments' amounts.
RECURSIVE sumAmounts(_, _)
sumAmounts(txHeap, refs) ==
  IF refs = <<>> THEN Amount(0, 0)
  ELSE amountAdd(txHeap[Head(refs)].amount, sumAmounts(txHeap, Tail(refs)))

\* Mutant: normalize also clears the id for a later renumbering.
normalizePaymentInfoRenumbering(pi, txHeap) ==
  [pi EXCEPT !.controlSum = sumAmounts(txHeap, pi.payments), !.id = <<>>]

\* Mutant: the reduce starts from the control sum the block holds.
normalizePaymentInfoAccumulating(pi, txHeap) ==
  [pi EXCEPT !.controlSum = amountAdd(pi.controlSum, sumAmounts(txHeap, pi.payments))]

\* Mutant: normalize leaves the control sum as it is.
normalizePaymentInfoKeepingSum(pi, txHeap) == pi

normalizePaymentInfo(pi, txHeap) == [pi EXCEPT !.controlSum = sumAmounts(txHeap, pi.payments)]

\* SepaDocument.normalize: every attached block normalized, in order.
RECURSIVE normalizePaymentInfos(_, _, _)
normalizePaymentInfos(piHeap, txHeap, refs) ==
  IF refs = <<>> THEN piHeap
  ELSE normalizePaymentInfos(
         [piHeap EXCEPT ![Head(refs)] = normalizePaymentInfo(piHeap[Head(refs)], txHeap)],
         txHeap, Tail(refs))

\* The reduce of SepaDocument.normalize over the normalized blocks.
RECURSIVE foldTotals(_, _)
foldTotals(piHeap, refs) ==
  IF refs = <<>> THEN [controlSum |-> Amount(0, 0), transactionCount |-> 0]
  ELSE LET acc == foldTotals(piHeap, SubSeq(refs, 1, Len(refs) - 1))
           block == piHeap[refs[Len(refs)]]
       IN [controlSum |-> amountAdd(acc.controlSum, block.controlSum),
           transactionCount |-> acc.transactionCount + transactionCount(block)]

\* SepaGroupHeader.toXML after the two fields are sanitized.
groupHeaderNode(hdr) ==
  LET painVersion == getPainXMLVersion(hdr.painFormat)
  IN Element("GrpHdr", <<>>,
       <<requiredNode("MsgId", Str(hdr.id)),
         requiredNode("CreDtTm", Str(IsoDateTime))>>
       \o (IF painVersion = 2
           THEN <<requiredNode("BtchBookg", Str(IF hdr.batchBooking THEN <<116, 114, 117, 101>>
                                                    ELSE <<102, 97, 108, 115, 101>>))>>
           ELSE <<>>)
       \o <<requiredNode("NbOfTxs", Num(hdr.transactionCount)),
            requiredNode("CtrlSum", Str(toFixed2(hdr.controlSum)))>>
       \o (IF painVersion = 2 THEN <<requiredNode("Grpg", Str(hdr.grouping))>> ELSE <<>>)
       \o <<containerNode("InitgPty",
              <<requiredNode("Nm", Str(hdr.initiatorName))>>
              \o (IF truthy(hdr.organisationId)
                  THEN <<containerNode("Id",
                           <<containerNode("OrgId",
                               <<containerNode("Othr",
                                   <<requiredNode("Id", hdr.organisationId)>>)>>)>>)>>
                  ELSE <<>>))>>)

sanitizeGroupHeader(hdr) ==
  [hdr EXCEPT !.id = filterOutInvalidCharacters(hdr.id),
              !.initiatorName = filterOutInvalidCharacters(hdr.initiatorName)]

NoXml == Element("none", <<>>, <<>>)
CreatedNotADate == "TypeError: this.created.toISOString is not a function"

\* SepaDocument.toXML: the objects as it leaves them, the error it throws (or
\* NoError) and the tree it returns.
documentToXML(hdr, piHeap, txHeap, refs) ==
  LET normalized == normalizePaymentInfos(piHeap, txHeap, refs)
      totals == foldTotals(normalized, refs)
      header == sanitizeGroupHeader(
                  [hdr EXCEPT !.controlSum = totals.controlSum,
                              !.transactionCount = totals.transactionCount])
  IN IF header.created # "date"
     THEN [grpHdr |-> header, pis |-> normalized, txs |-> txHeap,
           error |-> CreatedNotADate, xml |-> NoXml]
     ELSE LET blocks == serializePaymentInfos(normalized, txHeap, refs,
                                              <<groupHeaderNode(header)>>)
          IN [grpHdr |-> header, pis |-> blocks.pis, txs |-> blocks.txs,
              error |-> blocks.error,
              xml |-> IF blocks.error # NoError THEN NoXml
                      ELSE Element("Document", <<>>,
                                   <<Element(typeOf(hdr.painFormat), <<>>, blocks.nodes)>>)]

(***************************************************************************)
(* The checksum engine driven as a state machine: a caller draws a string, *)
(* passes it through checksumIBAN / checksumCreditorID, alters one digit,  *)
(* and asks validateIBAN / validateCreditorID for a verdict.               *)
(***************************************************************************)
VARIABLES
  arg,      \* the string the caller started from
  cur,      \* the string the caller holds now
  lastOp,   \* how cur was obtained from arg
  verdict,  \* what the last validate call returned for cur: "none", "true", "false"
  asked,    \* which validator gave the verdict: "none", "iban", "cid"
  remainder \* what the last modulo97 call returned for cur (NaN before any call)

csVars == <<arg, cur, lastOp, verdict, asked, remainder>>

(***************************************************************************)
(* The state of one SepaDocument and of the objects created for it.        *)
(***************************************************************************)
VARIABLES
  grpHdr,       \* doc.grpHdr (its painFormat is the document's)
  idSeparator,  \* the module-level idSeparator of lib/sepa.js
  paymentInfo,  \* doc.paymentInfo: references into pis, in insertion order
  pis,          \* the SepaPaymentInfo objects created so far
  txs,          \* the SepaTransaction objects created so far
  outcome,       \* what the call just made returned or threw
  inOrder       \* history: the caller has built the document top-down so far

(***************************************************************************)
(* The validation switch of lib/index.js.                                  *)
(***************************************************************************)
VARIABLES
  validationsEnabled,  \* the module-level validationsEnabled of lib/index.js
  switchArgs           \* history: the arguments of the last enableValidations call

switchVars == <<validationsEnabled, switchArgs>>

docVars == <<grpHdr, idSeparator, paymentInfo, pis, txs, outcome, inOrder, switchVars>>
vars == <<arg, cur, lastOp, verdict, asked, remainder,
          grpHdr, idSeparator, paymentInfo, pis, txs, outcome, inOrder,
          validationsEnabled, switchArgs>>

\* `let validationsEnabled = true`, and no call of enableValidations yet.
NoArgs == <<>>
SwitchInit ==
  /\ validationsEnabled = TRUE
  /\ switchArgs = NoArgs

\* 'pain.008.001.02' and 'pain.001.001.03'
Pain008 == <<112, 97, 105, 110, 46, 48, 48, 56, 46, 48, 48, 49, 46, 48, 50>>
Pain001 == <<112, 97, 105, 110, 46, 48, 48, 49, 46, 48, 48, 49, 46, 48, 51>>
Formats == {Pain008, Pain001}

NoResult == [op |-> "none", error |-> NoError, xml |-> NoXml]

\* No document is being built (the checksum engine runs alone).
DocParked ==
  /\ grpHdr = SepaGroupHeader(Pain008)
  /\ idSeparator = DefaultIdSeparator
  /\ paymentInfo = <<>>
  /\ pis = <<>>
  /\ txs = <<>>
  /\ outcome = NoResult
  /\ inOrder = TRUE
  /\ SwitchInit

\* No string is being checked (a document is being built).
CsParked ==
  /\ arg = <<>>
  /\ cur = <<>>
  /\ lastOp = "parked"
  /\ verdict = "none"
  /\ asked = "none"
  /\ remainder = NaN

\* Bounds of the strings the caller draws.
MaxBodyLen == 4

\* Two leading characters: "DE", "nl", "D9".
Prefixes == {<<68, 69>>, <<110, 108>>, <<68, 57>>}
\* Two check characters: "00", "X7".
CheckPairs == {<<48, 48>>, <<88, 55>>}
\* Characters of the part after the check characters: "1", "8", "Z", "-".
BodyChars == {49, 56, 90, 45}

RECURSIVE StringsUpTo(_, _)
StringsUpTo(chars, n) ==
  IF n = 0 THEN {<<>>}
  ELSE LET shorter == StringsUpTo(chars, n - 1)
       IN shorter \cup {Append(s, c) : s \in {t \in shorter : Len(t) = n - 1}, c \in chars}

Inputs ==
  {p \o k \o b : p \in Prefixes, k \in CheckPairs, b \in StringsUpTo(BodyChars, MaxBodyLen)}

boolToString(b) == IF b THEN "true" ELSE "false"

CsInit ==
  /\ arg \in Inputs
  /\ cur = arg
  /\ lastOp = "input"
  /\ verdict = "none"
  /\ asked = "none"
  /\ remainder = NaN
  /\ DocParked

ChecksumIBAN ==
  /\ lastOp = "input"
  /\ cur' = checksumIBAN(cur)
  /\ lastOp' = "checksumIBAN"
  /\ verdict' = "none"
  /\ asked' = "none"
  /\ UNCHANGED arg
  /\ UNCHANGED <<docVars, remainder>>

ChecksumCreditorID ==
  /\ lastOp = "input"
  /\ cur' = checksumCreditorID(cur)
  /\ lastOp' = "checksumCreditorID"
  /\ verdict' = "none"
  /\ asked' = "none"
  /\ UNCHANGED arg
  /\ UNCHANGED <<docVars, remainder>>

ValidateIBAN ==
  /\ verdict = "none"
  /\ lastOp # "checksumCreditorID"
  /\ verdict' = boolToString(validateIBAN(cur))
  /\ asked' = "iban"
  /\ UNCHANGED <<arg, cur, lastOp>>
  /\ UNCHANGED <<docVars, remainder>>

ValidateCreditorID ==
  /\ verdict = "none"
  /\ lastOp \in {"input", "checksumCreditorID"}
  /\ verdict' = boolToString(validateCreditorID(cur))
  /\ asked' = "cid"
  /\ UNCHANGED <<arg, cur, lastOp>>
  /\ UNCHANGED <<docVars, remainder>>

\* The caller replaces the decimal digit at index i (1-based) of an IBAN that
\* validateIBAN has accepted by another decimal digit d.
CorruptDigit(i, d) ==
  /\ lastOp \in {"input", "checksumIBAN"}
  /\ verdict = "true" /\ asked = "iban"
  /\ i \in 1..Len(cur)
  /\ cur[i] \in Digit
  /\ d # cur[i]
  /\ arg' = cur
  /\ cur' = [cur EXCEPT ![i] = d]
  /\ lastOp' = "corruptDigit"
  /\ verdict' = "none"
  /\ asked' = "none"
  /\ UNCHANGED <<docVars, remainder>>

CsNext ==
  \/ ChecksumIBAN
  \/ ChecksumCreditorID
  \/ ValidateIBAN
  \/ ValidateCreditorID
  \/ \E i \in 1..Len(cur), d \in Digit : CorruptDigit(i, d)

SpecChecksum == CsInit /\ [][CsNext]_vars

(***************************************************************************)
(* The helpers of lib/utils/utils.js called one at a time: a caller draws   *)
(* a string, passes it to replaceChars, filterOutInvalidCharacters,         *)
(* modulo97 or checksumIBAN, and may pass checksumIBAN's result to          *)
(* checksumIBAN again.                                                      *)
(***************************************************************************)
\* Bound of the strings the caller draws.
MaxUtilLen == 4

\* Characters of the drawn strings: "0", "6", "7", "9", "A", "z", "-", "_".
UtilChars == {48, 54, 55, 57, 65, 122, 45, 95}

\* '88512108001245126199' and 'FR7630006000011234567890189' (utils.test.js).
LongNumber ==
  <<56, 56, 53, 49, 50, 49, 48, 56, 48, 48, 49, 50, 52, 53, 49, 50, 54, 49, 57, 57>>
TestIban ==
  <<70, 82, 55, 54, 51, 48, 48, 48, 54, 48, 48, 48, 48, 49, 49, 50, 51, 52,
    53, 54, 55, 56, 57, 48, 49, 56, 57>>

UtilInputs ==
  StringsUpTo(UtilChars, MaxUtilLen)
    \cup {LongNumber, TestIban, [TestIban EXCEPT ![3] = 48, ![4] = 48]}

UtilInit ==
  /\ arg \in UtilInputs
  /\ cur = arg
  /\ lastOp = "input"
  /\ verdict = "none"
  /\ asked = "none"
  /\ remainder = NaN
  /\ DocParked

\* replaceChars(value): throws unless typeof value is 'string'.
ReplaceChars(value) ==
  /\ lastOp = "input"
  /\ IF value.t # "string"
       THEN /\ lastOp' = "replaceChars threw"
            /\ UNCHANGED cur
       ELSE /\ lastOp' = "replaceChars"
            /\ cur' = replaceChars(value.v)
  /\ UNCHANGED <<arg, verdict, asked, remainder, docVars>>

FilterOutInvalidCharacters ==
  /\ lastOp = "input"
  /\ cur' = filterOutInvalidCharacters(cur)
  /\ lastOp' = "filterOutInvalidCharacters"
  /\ UNCHANGED <<arg, verdict, asked, remainder, docVars>>

\* modulo97 of the drawn string, or of what replaceChars made of it.
Modulo97 ==
  /\ lastOp \in {"input", "replaceChars"}
  /\ remainder' = modulo97(cur)
  /\ lastOp' = "modulo97"
  /\ UNCHANGED <<arg, cur, verdict, asked, docVars>>

\* checksumIBAN(checksumIBAN(arg))
ChecksumIBANAgain ==
  /\ lastOp = "checksumIBAN"
  /\ cur' = checksumIBAN(cur)
  /\ lastOp' = "checksumIBAN again"
  /\ UNCHANGED <<arg, verdict, asked, remainder, docVars>>

UtilNext ==
  \/ \E value \in {Str(cur), JsNull} : ReplaceChars(value)
  \/ FilterOutInvalidCharacters
  \/ Modulo97
  \/ ChecksumIBAN
  \/ ChecksumIBANAgain

SpecUtils == UtilInit /\ [][UtilNext]_vars

(***************************************************************************)
(* A caller building and serializing one document.                         *)
(***************************************************************************)
\* Bounds of the document the caller builds.
MaxPaymentInfos == 2
MaxTransactions == 2
MaxBlocks == 2
MaxPayments == 2

\* Values the caller draws: the header id "M", the separator "-" (which the
\* sanitization removes), given ids "" / "A" for blocks and "" / "B" for
\* transactions.
GrpIds == {<<77>>}
Separators == {<<45>>}
PiGivenIds == {<<>>, <<65>>}
TxGivenIds == {<<>>, <<66>>}
TxAmounts == {Amount(1, 0), Amount(2, 500)}
JunkCount == 7
JunkSum == Amount(9, 990)

\* Fixtures of the README and the tests.
OwnIBAN == <<68, 69, 56, 55, 49, 50, 51, 52, 53, 54, 55, 56, 49, 50, 51, 52, 53, 54, 55, 56, 57, 48>>
OwnBIC == <<88, 77, 80, 76, 68, 69, 77, 48, 88, 88, 88>>
OwnCreditorId == <<68, 69, 57, 56, 90, 90, 90, 48, 57, 57, 57, 57, 57, 57, 57, 57, 57, 57>>
OtherIBAN == <<68, 69, 52, 48, 57, 56, 55, 54, 53, 52, 51, 50, 57, 56, 55, 54, 53, 52, 51, 50, 49, 48>>
OtherBIC == <<67, 85, 83, 84, 68, 69, 77, 48, 88, 88, 88>>
MandateId == <<88, 77, 80, 76, 46, 67, 85, 83, 84, 52, 56, 55, 46, 50, 48, 49, 52>>
End2EndId == <<88, 77, 80, 76, 46, 67, 85, 83, 84, 52, 56, 55, 46, 73, 78, 86, 79, 73, 67, 69, 46, 53, 52>>
InitiatorName == <<69, 120, 97, 109, 112, 108, 101, 32, 67, 111, 109, 112, 97, 110, 121>>

\* The caller fills the own party of a new block (README: info.creditorIBAN = ...).
completePaymentInfo(pi, givenId, iban, bic) ==
  IF pi.method = PaymentInfoTypes.DirectDebit
  THEN [pi EXCEPT !.id = givenId, !.collectionDate = "date",
                  !.creditorIBAN = iban, !.creditorBIC = bic,
                  !.creditorId = OwnCreditorId]
  ELSE [pi EXCEPT !.id = givenId, !.requestedExecutionDate = "date",
                  !.debtorIBAN = iban, !.debtorBIC = bic,
                  !.debtorId = OwnCreditorId]

\* The caller fills a new transaction (README: tx.debtorIBAN = ...).
completeTransaction(tx, givenId, amount) ==
  LET common == [tx EXCEPT !.id = givenId, !.amount = amount, !.end2endId = End2EndId,
                           !.mandateId = MandateId, !.mandateSignatureDate = "date"]
  IN IF tx.type = TransactionTypes.Transfer
     THEN [common EXCEPT !.creditorIBAN = OtherIBAN, !.creditorBIC = OtherBIC]
     ELSE [common EXCEPT !.debtorIBAN = OtherIBAN, !.debtorBIC = OtherBIC]

\* Every transaction reference held by some block.
AddedTransactions == UNION {Range(pis[p].payments) : p \in DOMAIN pis}

\* new SEPA.Document(painFormat), painFormat drawn from formats.
DocInit(formats) ==
  /\ grpHdr \in {SepaGroupHeader(f) : f \in formats}
  /\ idSeparator = DefaultIdSeparator
  /\ paymentInfo = <<>>
  /\ pis = <<>>
  /\ txs = <<>>
  /\ outcome = NoResult
  /\ inOrder = TRUE
  /\ SwitchInit
  /\ CsParked

\* doc.grpHdr.id = ...; doc.grpHdr.created = new Date(); doc.grpHdr.initiatorName = ...
AssignGrpHdr(id) ==
  /\ grpHdr' = [grpHdr EXCEPT !.id = id, !.created = "date", !.initiatorName = InitiatorName]
  /\ inOrder' = (inOrder /\ (id = grpHdr.id \/ paymentInfo = <<>>))
  /\ outcome' = NoResult
  /\ UNCHANGED <<idSeparator, paymentInfo, pis, txs>>
  /\ UNCHANGED <<csVars, switchVars>>

\* The caller writes the header totals directly.
AssignGrpHdrTotals ==
  /\ grpHdr' = [grpHdr EXCEPT !.transactionCount = JunkCount, !.controlSum = JunkSum]
  /\ outcome' = NoResult
  /\ UNCHANGED <<idSeparator, paymentInfo, pis, txs, inOrder>>
  /\ UNCHANGED <<csVars, switchVars>>

\* The caller writes a block's controlSum directly.
AssignPaymentInfoControlSum(p) ==
  /\ p \in DOMAIN pis
  /\ pis' = [pis EXCEPT ![p].controlSum = JunkSum]
  /\ outcome' = NoResult
  /\ UNCHANGED <<grpHdr, idSeparator, paymentInfo, txs, inOrder>>
  /\ UNCHANGED <<csVars, switchVars>>

\* SEPA.setIDSeparator(seperator)
SetIDSeparator(seperator) ==
  /\ idSeparator' = seperator
  /\ inOrder' = (inOrder /\ (seperator = idSeparator
                             \/ (paymentInfo = <<>> /\ AddedTransactions = {})))
  /\ outcome' = NoResult
  /\ UNCHANGED <<grpHdr, paymentInfo, pis, txs>>
  /\ UNCHANGED <<csVars, switchVars>>

\* doc.createPaymentInfo(), then the caller's assignments.
CreatePaymentInfo(givenId, iban, bic) ==
  /\ Len(pis) < MaxPaymentInfos
  /\ pis' = Append(pis, completePaymentInfo(SepaPaymentInfo(grpHdr.painFormat),
                                            givenId, iban, bic))
  /\ outcome' = NoResult
  /\ UNCHANGED <<grpHdr, idSeparator, paymentInfo, txs, inOrder>>
  /\ UNCHANGED <<csVars, switchVars>>

\* doc.addPaymentInfo(pis[p])
AddPaymentInfo(p) ==
  /\ p \in DOMAIN pis
  /\ Len(paymentInfo) < MaxBlocks
  /\ pis' = [pis EXCEPT ![p].id = childId(grpHdr.id, idSeparator, pis[p].id, Len(paymentInfo))]
  /\ paymentInfo' = Append(paymentInfo, p)
  /\ inOrder' = (inOrder /\ p \notin Range(paymentInfo) /\ pis[p].payments = <<>>)
  /\ outcome' = NoResult
  /\ UNCHANGED <<grpHdr, idSeparator, txs>>
  /\ UNCHANGED <<csVars, switchVars>>

\* pis[p].createTransaction(), then the caller's assignments.
CreateTransaction(p, givenId, amount) ==
  /\ p \in DOMAIN pis
  /\ Len(txs) < MaxTransactions
  /\ txs' = Append(txs, completeTransaction(SepaTransaction(pis[p].painFormat), givenId, amount))
  /\ outcome' = NoResult
  /\ UNCHANGED <<grpHdr, idSeparator, paymentInfo, pis, inOrder>>
  /\ UNCHANGED <<csVars, switchVars>>

\* pis[p].addTransaction(txs[t])
AddTransaction(p, t) ==
  /\ p \in DOMAIN pis
  /\ t \in DOMAIN txs
  /\ Len(pis[p].payments) < MaxPayments
  /\ txs' = [txs EXCEPT ![t].id = childId(pis[p].id, idSeparator, txs[t].id,
                                          Len(pis[p].payments))]
  /\ pis' = [pis EXCEPT ![p].payments = Append(pis[p].payments, t)]
  /\ inOrder' = (inOrder /\ p \in Range(paymentInfo) /\ t \notin AddedTransactions)
  /\ outcome' = NoResult
  /\ UNCHANGED <<grpHdr, idSeparator, paymentInfo>>
  /\ UNCHANGED <<csVars, switchVars>>

\* doc.normalize()
DocNormalize ==
  /\ \E normalized \in {normalizePaymentInfos(pis, txs, paymentInfo)} :
       \E totals \in {foldTotals(normalized, paymentInfo)} :
          /\ pis' = normalized
          /\ grpHdr' = [grpHdr EXCEPT !.controlSum = totals.controlSum,
                                      !.transactionCount = totals.transactionCount]
  /\ outcome' = NoResult
  /\ UNCHANGED <<idSeparator, paymentInfo, txs, inOrder>>
  /\ UNCHANGED <<csVars, switchVars>>

\* doc.toXML(), and doc.toString(), which returns
\* new XMLSerializer().serializeToString(this.toXML()): the objects as the call
\* leaves them and what it returned (the tree, standing for its text too) or threw.
DocSerialize ==
  /\ \E out \in {documentToXML(grpHdr, pis, txs, paymentInfo)} :
        /\ grpHdr' = out.grpHdr
        /\ pis' = out.pis
        /\ txs' = out.txs
        /\ outcome' = [op |-> "serialize", error |-> out.error, xml |-> out.xml]
  /\ UNCHANGED <<idSeparator, paymentInfo, inOrder>>
  /\ UNCHANGED <<csVars, switchVars>>

\* The transactions no block holds yet.
NotYetAdded == (DOMAIN txs) \ AddedTransactions

\* Values the caller draws when the ids are under study.
IdAmounts == {Amount(1, 0)}
\* Values the caller draws when the totals are under study.
TotalsGivenIds == {<<>>}

\* The caller varies ids, separators and the order of the calls.
NextIds ==
  \/ \E id \in GrpIds : AssignGrpHdr(id)
  \/ \E seperator \in Separators : SetIDSeparator(seperator)
  \/ \E givenId \in PiGivenIds : CreatePaymentInfo(givenId, OwnIBAN, OwnBIC)
  \/ \E p \in 1..MaxPaymentInfos : AddPaymentInfo(p)
  \/ \E p \in 1..MaxPaymentInfos, givenId \in TxGivenIds, amount \in IdAmounts :
       CreateTransaction(p, givenId, amount)
  \/ \E p \in 1..MaxPaymentInfos, t \in NotYetAdded : AddTransaction(p, t)
  \/ DocNormalize
  \/ DocSerialize

IdsInit == DocInit({Pain008})

SpecIds == IdsInit /\ [][NextIds]_vars

\* new SEPA.Document(painFormat) followed by the header assignments of the README.
DocInitAssigned ==
  /\ grpHdr \in {[SepaGroupHeader(f) EXCEPT !.id = <<77>>, !.created = "date",
                                            !.initiatorName = InitiatorName] : f \in Formats}
  /\ idSeparator = DefaultIdSeparator
  /\ paymentInfo = <<>>
  /\ pis = <<>>
  /\ txs = <<>>
  /\ outcome = NoResult
  /\ inOrder = TRUE
  /\ SwitchInit
  /\ CsParked

\* The caller varies amounts and writes the totals directly.
NextTotals ==
  \/ AssignGrpHdrTotals
  \/ \E p \in 1..MaxPaymentInfos : AssignPaymentInfoControlSum(p)
  \/ \E givenId \in TotalsGivenIds : CreatePaymentInfo(givenId, OwnIBAN, OwnBIC)
  \/ \E p \in 1..MaxPaymentInfos : AddPaymentInfo(p)
  \/ \E p \in 1..MaxPaymentInfos, givenId \in TotalsGivenIds, amount \in TxAmounts :
       CreateTransaction(p, givenId, amount)
  \/ \E p \in 1..MaxPaymentInfos, t \in NotYetAdded : AddTransaction(p, t)
  \/ DocNormalize
  \/ DocSerialize

SpecTotals == DocInitAssigned /\ [][NextTotals]_vars

\* Own-party IBANs and BICs the caller draws when validation is under study:
\* a German and a French IBAN and one with a wrong check sum; no BIC, a German
\* BIC, a Finnish BIC of eight characters, and a BIC cut after four characters.
FrenchIBAN == <<70, 82, 55, 54, 51, 48, 48, 48, 54, 48, 48, 48, 48, 49, 49, 50, 51, 52, 53, 54, 55, 56, 57, 48, 49, 56, 57>>
BadChecksumIBAN == <<68, 69, 56, 55, 49, 50, 51, 52, 53, 54, 55, 56, 49, 50, 51, 52, 53, 54, 55, 56, 57, 49>>
FinnishBIC == <<77, 76, 73, 82, 70, 73, 72, 49>>
ShortBIC == <<88, 77, 80, 76>>
ValidateIbans == {OwnIBAN, FrenchIBAN, BadChecksumIBAN}
ValidateBics == {<<>>, OwnBIC, FinnishBIC, ShortBIC}

\* The caller varies the own party of the blocks.
NextValidate ==
  \/ \E iban \in ValidateIbans, bic \in ValidateBics :
       CreatePaymentInfo(<<>>, iban, bic)
  \/ \E p \in 1..MaxPaymentInfos : AddPaymentInfo(p)
  \/ \E p \in 1..MaxPaymentInfos, amount \in IdAmounts : CreateTransaction(p, <<>>, amount)
  \/ \E p \in 1..MaxPaymentInfos, t \in NotYetAdded : AddTransaction(p, t)
  \/ DocSerialize

SpecValidate == DocInitAssigned /\ [][NextValidate]_vars

(***************************************************************************)
(* A caller varying the fields of the transactions of one valid block.     *)
(***************************************************************************)
\* What the caller writes to a new transaction: the other party's IBAN, BIC
\* and address (creditor* for a transfer, debtor* for a direct debit), the
\* amount, the mandate and the end-to-end id.
TxBase ==
  [ iban |-> OtherIBAN, bic |-> OtherBIC, amount |-> Amount(1, 0),
    mandateId |-> MandateId, mandateSignatureDate |-> "date",
    end2endId |-> End2EndId,
    street |-> JsNull, city |-> JsNull, country |-> JsNull ]

\* "Main Street 1", "Berlin", "DE"
Street == <<77, 97, 105, 110, 32, 83, 116, 114, 101, 101, 116, 32, 49>>
City == <<66, 101, 114, 108, 105, 110>>
Country == <<68, 69>>

\* Other-party BIC / IBAN pairs: the German, Finnish and four-character BIC, or
\* none, with the German or the French IBAN.
TxPairs ==
  {[TxBase EXCEPT !.bic = bic, !.iban = iban] :
     bic \in {<<>>, OtherBIC, FinnishBIC, ShortBIC}, iban \in {OtherIBAN, FrenchIBAN}}

\* Amounts: 0 (the default), 0.005, 0.01, 0.011, 50.23, 50.234, 999999999.99,
\* 999999999.991 and 1000000000.
TxAmountCases ==
  {Amount(0, 0), Amount(0, 5), Amount(0, 10), Amount(0, 11), Amount(50, 230),
   Amount(50, 234), Amount(999999999, 990), Amount(999999999, 991), Amount(1000000000, 0)}

\* Mandates: the id and the signature date set or left at their defaults.
TxMandates ==
  {[TxBase EXCEPT !.mandateId = id, !.mandateSignatureDate = date] :
     id \in {<<>>, MandateId}, date \in {"null", "date"}}

\* Addresses: none, or street, city and country of the other party.
TxAddresses ==
  {TxBase, [TxBase EXCEPT !.street = Str(Street), !.city = Str(City), !.country = Str(Country)]}

TxCases ==
  TxPairs \cup {[TxBase EXCEPT !.amount = a] : a \in TxAmountCases}
          \cup TxMandates \cup TxAddresses

\* The caller's assignments to a new transaction.
completeTransactionWith(tx, fields) ==
  LET common == [tx EXCEPT !.amount = fields.amount, !.end2endId = fields.end2endId,
                           !.mandateId = fields.mandateId,
                           !.mandateSignatureDate = fields.mandateSignatureDate]
  IN IF tx.type = TransactionTypes.Transfer
     THEN [common EXCEPT !.creditorIBAN = fields.iban, !.creditorBIC = fields.bic,
                         !.creditorStreet = fields.street, !.creditorCity = fields.city,
                         !.creditorCountry = fields.country]
     ELSE [common EXCEPT !.debtorIBAN = fields.iban, !.debtorBIC = fields.bic,
                         !.debtorStreet = fields.street, !.debtorCity = fields.city,
                         !.debtorCountry = fields.country]

\* pis[p].createTransaction(), then the caller's assignments.
CreateTransactionWith(p, fields) ==
  /\ p \in DOMAIN pis
  /\ Len(txs) < MaxTransactions
  /\ txs' = Append(txs, completeTransactionWith(SepaTransaction(pis[p].painFormat), fields))
  /\ outcome' = NoResult
  /\ UNCHANGED <<grpHdr, idSeparator, paymentInfo, pis, inOrder>>
  /\ UNCHANGED <<csVars, switchVars>>

\* The amount is one of the two largest the caller draws.
IsLargest(amount) == ~amountLess(amount, AmountMax)

\* The caller attaches each block once and draws at most one of the largest
\* amounts, so that every sum stays within the integers of the model.
NextTx ==
  \/ CreatePaymentInfo(<<>>, OwnIBAN, OwnBIC)
  \/ \E p \in (1..MaxPaymentInfos) \ Range(paymentInfo) : AddPaymentInfo(p)
  \/ \E p \in 1..MaxPaymentInfos, fields \in TxCases :
       /\ IsLargest(fields.amount) => \A t \in DOMAIN txs : ~IsLargest(txs[t].amount)
       /\ CreateTransactionWith(p, fields)
  \/ \E p \in 1..MaxPaymentInfos, t \in NotYetAdded : AddTransaction(p, t)
  \/ DocSerialize

SpecTx == DocInitAssigned /\ [][NextTx]_vars

(***************************************************************************)
(* A document constructed with any format string, then filled.            *)
(***************************************************************************)
\* 'pain.008.001.08' (the format of the direct-debit tests) and 'pain.009.001.01'
Pain008v8 == <<112, 97, 105, 110, 46, 48, 48, 56, 46, 48, 48, 49, 46, 48, 56>>
Pain009 == <<112, 97, 105, 110, 46, 48, 48, 57, 46, 48, 48, 49, 46, 48, 49>>
AnyFormats == Formats \cup {Pain008v8, Pain009}

\* new SEPA.Document(painFormat) for any string, then the header assignments.
DocInitAnyFormat ==
  /\ grpHdr \in {[SepaGroupHeader(f) EXCEPT !.id = <<77>>, !.created = "date",
                                            !.initiatorName = InitiatorName] : f \in AnyFormats}
  /\ idSeparator = DefaultIdSeparator
  /\ paymentInfo = <<>>
  /\ pis = <<>>
  /\ txs = <<>>
  /\ outcome = NoResult
  /\ inOrder = TRUE
  /\ SwitchInit
  /\ CsParked

NextFormats ==
  \/ \E givenId \in PiGivenIds : CreatePaymentInfo(givenId, OwnIBAN, OwnBIC)
  \/ \E p \in 1..MaxPaymentInfos : AddPaymentInfo(p)
  \/ \E p \in 1..MaxPaymentInfos, givenId \in TxGivenIds :
       CreateTransaction(p, givenId, Amount(50, 230))
  \/ \E p \in 1..MaxPaymentInfos, t \in NotYetAdded : AddTransaction(p, t)
  \/ DocNormalize

SpecFormats == DocInitAnyFormat /\ [][NextFormats]_vars

(***************************************************************************)
(* Documents of the formats of structural version 2 and 3, with and        *)
(* without an organisation id in the group header.                         *)
(***************************************************************************)
\* 'pain.001.001.02' and 'pain.008.001.01'
Pain001v2 == <<112, 97, 105, 110, 46, 48, 48, 49, 46, 48, 48, 49, 46, 48, 50>>
Pain008v1 == <<112, 97, 105, 110, 46, 48, 48, 56, 46, 48, 48, 49, 46, 48, 49>>
HeaderFormats == Formats \cup {Pain001v2, Pain008v1}

\* null (the constructor's value), '' and 'ORG1'
OrganisationIds == {JsNull, Str(<<>>), Str(<<79, 82, 71, 49>>)}

HeaderInit ==
  /\ grpHdr \in {[SepaGroupHeader(f) EXCEPT !.id = <<77>>, !.created = "date",
                                            !.initiatorName = InitiatorName] : f \in HeaderFormats}
  /\ idSeparator = DefaultIdSeparator
  /\ paymentInfo = <<>>
  /\ pis = <<>>
  /\ txs = <<>>
  /\ outcome = NoResult
  /\ inOrder = TRUE
  /\ SwitchInit
  /\ CsParked

\* doc.grpHdr.organisationId = value
AssignOrganisationId(value) ==
  /\ grpHdr' = [grpHdr EXCEPT !.organisationId = value]
  /\ outcome' = NoResult
  /\ UNCHANGED <<idSeparator, paymentInfo, pis, txs, inOrder>>
  /\ UNCHANGED <<csVars, switchVars>>

NextHeader ==
  \/ \E value \in OrganisationIds : AssignOrganisationId(value)
  \/ \E givenId \in PiGivenIds : CreatePaymentInfo(givenId, OwnIBAN, OwnBIC)
  \/ \E p \in 1..MaxPaymentInfos : AddPaymentInfo(p)
  \/ \E p \in 1..MaxPaymentInfos, amount \in TxAmounts : CreateTransaction(p, <<>>, amount)
  \/ \E p \in 1..MaxPaymentInfos, t \in NotYetAdded : AddTransaction(p, t)
  \/ DocSerialize

SpecHeader == HeaderInit /\ [][NextHeader]_vars

(***************************************************************************)
(* Blocks serialized through the document and on their own, with           *)
(* transactions added and amounts changed in between.                      *)
(***************************************************************************)
\* txs[t].amount = amount
AssignTransactionAmount(t, amount) ==
  /\ t \in DOMAIN txs
  /\ txs[t].amount # amount
  /\ txs' = [txs EXCEPT ![t].amount = amount]
  /\ outcome' = NoResult
  /\ UNCHANGED <<grpHdr, idSeparator, paymentInfo, pis, inOrder>>
  /\ UNCHANGED <<csVars, switchVars>>

\* pis[p].toXML(document), called by the caller: the block and its transactions
\* as the call leaves them, and the PmtInf element it returned or what it threw;
\* block is the receiver of the call.
PaymentInfoToXML(p) ==
  /\ p \in DOMAIN pis
  /\ \E out \in {serializePaymentInfos(pis, txs, <<p>>, <<>>)} :
        /\ pis' = out.pis
        /\ txs' = out.txs
        /\ outcome' = [op |-> "paymentInfo.toXML", error |-> out.error,
                       xml |-> IF out.error = NoError THEN out.nodes[1] ELSE NoXml,
                       block |-> p]
  /\ UNCHANGED <<grpHdr, idSeparator, paymentInfo, inOrder>>
  /\ UNCHANGED <<csVars, switchVars>>

NextBlock ==
  \/ CreatePaymentInfo(<<>>, OwnIBAN, OwnBIC)
  \/ \E p \in 1..MaxPaymentInfos : AddPaymentInfo(p)
  \/ \E p \in 1..MaxPaymentInfos, amount \in TxAmounts : CreateTransaction(p, <<>>, amount)
  \/ \E p \in 1..MaxPaymentInfos, t \in NotYetAdded : AddTransaction(p, t)
  \/ \E t \in 1..MaxTransactions, amount \in TxAmounts : AssignTransactionAmount(t, amount)
  \/ DocSerialize
  \/ \E p \in 1..MaxPaymentInfos : PaymentInfoToXML(p)

SpecBlock == DocInitAssigned /\ [][NextBlock]_vars

(***************************************************************************)
(* One block whose own BIC has any length.                                 *)
(***************************************************************************)
\* The first 0, 5, 6, 7, 8, 9 and 11 characters of 'XMPLDEM0XXX', and
\* 'XMPLDEM0XXXX'.
BicsOfAnyLength ==
  {SubSeq(OwnBIC, 1, n) : n \in {0, 5, 6, 7, 8, 9, 11}} \cup {OwnBIC \o <<88>>}

NextBic ==
  \/ \E bic \in BicsOfAnyLength : pis = <<>> /\ CreatePaymentInfo(<<>>, OwnIBAN, bic)
  \/ \E p \in (1..MaxPaymentInfos) \ Range(paymentInfo) : AddPaymentInfo(p)
  \/ \E p \in 1..MaxPaymentInfos, amount \in TxAmounts : CreateTransaction(p, <<>>, amount)
  \/ \E p \in 1..MaxPaymentInfos, t \in NotYetAdded : AddTransaction(p, t)
  \/ DocSerialize
  \/ \E p \in 1..MaxPaymentInfos : PaymentInfoToXML(p)

SpecBic == DocInitAssigned /\ [][NextBic]_vars

(***************************************************************************)
(* addPaymentInfo and addTransaction called with any object.               *)
(***************************************************************************)
\* An object the caller can pass: a block, a transaction (both by reference)
\* or a plain object literal.
ObjectOf(class, ref) == [class |-> class, ref |-> ref]
Objects ==
  {ObjectOf("SepaPaymentInfo", p) : p \in DOMAIN pis}
    \cup {ObjectOf("SepaTransaction", t) : t \in DOMAIN txs}
    \cup {ObjectOf("Object", 0)}

\* Mutant: every object passes the class test.
instanceOfAnything(object, class) == TRUE

\* object instanceof class
instanceOf(object, class) == object.class = class

NotPaymentInfo == "Given payment is not member of the PaymentInfo class"
NotTransaction == "Given Transaction is not member of the SepaTransaction class"

\* doc.addPaymentInfo(object)
AddPaymentInfoOf(object) ==
  IF ~instanceOf(object, "SepaPaymentInfo")
  THEN /\ outcome' = [op |-> "addPaymentInfo", error |-> NotPaymentInfo, xml |-> NoXml]
       /\ UNCHANGED <<grpHdr, idSeparator, paymentInfo, pis, txs, inOrder>>
       /\ UNCHANGED <<csVars, switchVars>>
  ELSE AddPaymentInfo(object.ref)

\* pis[p].addTransaction(object)
AddTransactionOf(p, object) ==
  IF ~instanceOf(object, "SepaTransaction")
  THEN /\ p \in DOMAIN pis
       /\ outcome' = [op |-> "addTransaction", error |-> NotTransaction, xml |-> NoXml]
       /\ UNCHANGED <<grpHdr, idSeparator, paymentInfo, pis, txs, inOrder>>
       /\ UNCHANGED <<csVars, switchVars>>
  ELSE AddTransaction(p, object.ref)

NextObjects ==
  \/ \E givenId \in PiGivenIds : CreatePaymentInfo(givenId, OwnIBAN, OwnBIC)
  \/ \E p \in 1..MaxPaymentInfos, givenId \in TxGivenIds :
       CreateTransaction(p, givenId, Amount(50, 230))
  \/ \E object \in Objects : AddPaymentInfoOf(object)
  \/ \E p \in 1..MaxPaymentInfos, object \in Objects : AddTransactionOf(p, object)

SpecObjects == DocInitAssigned /\ [][NextObjects]_vars

(***************************************************************************)
(* Transactions whose end-to-end id varies.                                *)
(***************************************************************************)
\* 'one-more-than-thirty-five-characters' (36 characters, of the tests)
LongIdentifier ==
  <<111, 110, 101, 45, 109, 111, 114, 101, 45, 116, 104, 97, 110, 45, 116, 104, 105, 114, 116, 121, 45, 102, 105, 118, 101, 45, 99, 104, 97, 114, 97, 99, 116, 101, 114, 115>>

\* A run of n letters 'a'.
Letters(n) == [i \in 1..n |-> 97]

\* End-to-end ids: the README's, 'O' with diaeresis alone and after a letter,
\* 'a-b', the 36 characters of the tests, and 35 and 36 letters.
End2EndIds ==
  {End2EndId, <<214>>, <<97, 214>>, <<97, 45, 98>>, LongIdentifier,
   Letters(SepaIdMaxLength), Letters(SepaIdMaxLength + 1)}

End2EndCases == {[TxBase EXCEPT !.end2endId = id] : id \in End2EndIds}

NextEndToEnd ==
  \/ CreatePaymentInfo(<<>>, OwnIBAN, OwnBIC)
  \/ \E p \in (1..MaxPaymentInfos) \ Range(paymentInfo) : AddPaymentInfo(p)
  \/ \E p \in 1..MaxPaymentInfos, fields \in End2EndCases :
       CreateTransactionWith(p, fields)
  \/ \E p \in 1..MaxPaymentInfos, t \in NotYetAdded : AddTransaction(p, t)
  \/ DocSerialize

SpecEndToEnd == DocInitAssigned /\ [][NextEndToEnd]_vars

(***************************************************************************)
(* One block whose names, ids and free texts need sanitizing.              *)
(***************************************************************************)
\* "Jean L'Och" (index.test.js) and "Invoice #1"
ShortName == <<74, 101, 97, 110, 32, 76, 39, 79, 99, 104>>
ShortRemittance == <<73, 110, 118, 111, 105, 99, 101, 32, 35, 49>>

\* n - 1 letters, an apostrophe at position n, then "AB".
OverlongText(n) == Letters(n - 1) \o <<39, 65, 66>>

\* What the caller writes to a transaction: the other party's name and
\* address, the remittance information, the end-to-end id and the mandate id.
\* The ids 'A&B' and 'M@1' hold a character the sanitizing removes.
PlainTexts ==
  [ name |-> ShortName, remittanceInfo |-> ShortRemittance,
    end2endId |-> End2EndId, mandateId |-> MandateId,
    street |-> JsNull, city |-> JsNull, country |-> JsNull ]
OverlongTexts ==
  [ name |-> OverlongText(MaxNameLength),
    remittanceInfo |-> OverlongText(MaxRemittanceLength),
    end2endId |-> <<65, 38, 66>>, mandateId |-> <<77, 64, 49>>,
    street |-> Str(OverlongText(MaxNameLength)),
    city |-> Str(OverlongText(MaxNameLength)),
    country |-> Str(<<68, 69, 85>>) ]
TextCases ==
  {PlainTexts, OverlongTexts,
   [PlainTexts EXCEPT !.end2endId = Letters(SepaIdMaxLength + 1)],
   [PlainTexts EXCEPT !.mandateId = Letters(SepaIdMaxLength + 1)]}

\* Ids given to a transaction: none, and 40 letters.
SanitizeTxIds == {<<>>, Letters(SepaIdMaxLength + 5)}

\* info.creditorName = name (debtorName in a transfer)
AssignPaymentInfoName(p, name) ==
  /\ p \in DOMAIN pis
  /\ ownName(pis[p]) = <<>>
  /\ pis' = [pis EXCEPT ![p] = IF pis[p].method = PaymentInfoTypes.DirectDebit
                                THEN [pis[p] EXCEPT !.creditorName = name]
                                ELSE [pis[p] EXCEPT !.debtorName = name]]
  /\ outcome' = NoResult
  /\ UNCHANGED <<grpHdr, idSeparator, paymentInfo, txs, inOrder>>
  /\ UNCHANGED <<csVars, switchVars>>

\* tx.debtorName = ..., tx.remittanceInfo = ..., and so on (creditor* in a transfer)
AssignTransactionTexts(t, texts) ==
  /\ t \in DOMAIN txs
  /\ otherName(txs[t]) = <<>>
  /\ LET common == [txs[t] EXCEPT !.remittanceInfo = texts.remittanceInfo,
                                  !.end2endId = texts.end2endId,
                                  !.mandateId = texts.mandateId]
     IN txs' = [txs EXCEPT ![t] =
                  IF txs[t].type = TransactionTypes.Transfer
                  THEN [common EXCEPT !.creditorName = texts.name,
                                      !.creditorStreet = texts.street,
                                      !.creditorCity = texts.city,
                                      !.creditorCountry = texts.country]
                  ELSE [common EXCEPT !.debtorName = texts.name,
                                      !.debtorStreet = texts.street,
                                      !.debtorCity = texts.city,
                                      !.debtorCountry = texts.country]]
  /\ outcome' = NoResult
  /\ UNCHANGED <<grpHdr, idSeparator, paymentInfo, pis, inOrder>>
  /\ UNCHANGED <<csVars, switchVars>>

NextSanitize ==
  \/ pis = <<>> /\ CreatePaymentInfo(<<>>, OwnIBAN, OwnBIC)
  \/ \E p \in 1..MaxPaymentInfos, name \in {ShortName, OverlongText(MaxNameLength)} :
       AssignPaymentInfoName(p, name)
  \/ \E p \in (1..MaxPaymentInfos) \ Range(paymentInfo) : AddPaymentInfo(p)
  \/ \E p \in 1..MaxPaymentInfos, givenId \in SanitizeTxIds :
       CreateTransaction(p, givenId, Amount(1, 0))
  \/ \E t \in 1..MaxTransactions, texts \in TextCases : AssignTransactionTexts(t, texts)
  \/ \E p \in 1..MaxPaymentInfos, t \in NotYetAdded : AddTransaction(p, t)
  \/ DocSerialize

SpecSanitize == DocInitAssigned /\ [][NextSanitize]_vars

\* doc.toString() once more, right after a call that returned.
DocSerializeAgain ==
  /\ outcome.op = "serialize" /\ outcome.error = NoError
  /\ \E out \in {documentToXML(grpHdr, pis, txs, paymentInfo)} :
        /\ grpHdr' = out.grpHdr
        /\ pis' = out.pis
        /\ txs' = out.txs
        /\ outcome' = [op |-> "serialize again", error |-> out.error, xml |-> out.xml]
  /\ UNCHANGED <<idSeparator, paymentInfo, inOrder>>
  /\ UNCHANGED <<csVars, switchVars>>

NextTwice ==
  \/ NextSanitize
  \/ DocSerializeAgain

SpecTwice == DocInitAssigned /\ [][NextTwice]_vars

(***************************************************************************)
(* lib/index.js: the library with the validation switch.  Its validate()   *)
(* methods assert without sanitizing, and toXML calls them only while      *)
(* validationsEnabled holds.  assert_fixed, assert_length, assert_range,   *)
(* assert_iban, assert_cid and assert_date decide as their namesakes of     *)
(* lib/utils/assert.js do on the values of this model.                     *)
(***************************************************************************)
\* assert_sepa_id_set1 / assert_sepa_id_set2: `str && !str.match(/(...){1,35}/)`.
\* The pattern is not anchored: it matches as soon as one character of str is
\* in the set.
assert_sepa_id_throws(str, chars) ==
  str # <<>> /\ \A i \in DOMAIN str : str[i] \notin chars

\* SepaPaymentInfo.validate: the message of the first assertion that throws,
\* or NoError.  The name and the address of the own party are not fields of
\* the model's block; their defaults '' and null pass assert_length.
validatePaymentInfo(pi) ==
  CASE assertFixedThrows(pi.localInstrumentation, {"CORE", "COR1", "B2B", "SDCL", "ONCL"})
         -> "localInstrumentation must have any value of"
    [] assertFixedThrows(pi.sequenceType, {"FRST", "RCUR", "OOFF", "FNAL"})
         -> "sequenceType must have any value of"
    [] pi.method = PaymentInfoTypes.DirectDebit /\ assertDateThrows(pi.collectionDate)
         -> "collectionDate has invalid date"
    [] pi.method = PaymentInfoTypes.DirectDebit /\ assertCidThrows(ownId(pi))
         -> "creditorId is invalid"
    [] pi.method # PaymentInfoTypes.DirectDebit /\ assertDateThrows(pi.requestedExecutionDate)
         -> "requestedExecutionDate has invalid date"
    [] assertIbanThrows(ownIBAN(pi)) -> "has invalid IBAN"
    \* assert_length(bic, [0, 8, 11], 'creditorBIC'): min is an array, max a name.
    [] assertLengthThrows(Str(ownBIC(pi)), NaN, NaN) -> "BIC has invalid string length"
    [] ~countryMatches(ownBIC(pi), ownIBAN(pi)) -> CountryMismatch
    [] assertLengthThrows(Num(Len(pi.payments)), 1, Null)
         -> "_payments has invalid string length"
    [] OTHER -> NoError

\* SepaTransaction.validate.
validateTransaction(tx) ==
  CASE assert_sepa_id_throws(tx.end2endId, SepaIdSet1Chars)
         -> "end2endId doesn't match sepa id charset type 1"
    [] assertRangeThrows(tx.amount, AmountMin, AmountMax) -> "amount does not match range"
    [] ~equalsToFixed2(tx.amount) -> "amount has too many fractional digits"
    [] assertLengthThrows(tx.purposeCode, 1, 4) -> "purposeCode has invalid string length"
    [] assert_sepa_id_throws(tx.mandateId, SepaIdSet2Chars)
         -> "mandateId doesn't match sepa id charset type 2"
    [] assertDateThrows(tx.mandateSignatureDate) -> "mandateSignatureDate has invalid date"
    [] assertLengthThrows(Str(otherName(tx)), Null, MaxNameLength)
         -> "Name has invalid string length"
    [] assertLengthThrows(otherStreet(tx), Null, MaxNameLength)
         -> "Street has invalid string length"
    [] assertLengthThrows(otherCity(tx), Null, MaxNameLength)
         -> "City has invalid string length"
    [] assertLengthThrows(otherCountry(tx), Null, CountryLength)
         -> "Country has invalid string length"
    [] assertIbanThrows(otherIBAN(tx)) -> "has invalid IBAN"
    [] assertLengthThrows(Str(tx.remittanceInfo), Null, MaxRemittanceLength)
         -> "remittanceInfo has invalid string length"
    [] OTHER -> NoError

\* What `date.toISOString()` throws for a date that is null.
NullHasNoToISOString == "TypeError: Cannot read properties of null (reading 'toISOString')"

\* SepaTransaction.toXML(doc): validate() while the switch is on, then the
\* element, built as lib/sepa.js builds it from the same fields.
transactionToXML(enabled, tx) ==
  LET err == IF enabled THEN validateTransaction(tx) ELSE NoError
  IN IF err # NoError THEN [error |-> err, node |-> NoXml]
     ELSE IF tx.type = TransactionTypes.DirectDebit /\ tx.mandateSignatureDate # "date"
     THEN [error |-> NullHasNoToISOString, node |-> NoXml]
     ELSE [error |-> NoError, node |-> transactionNode(tx)]

\* this.payments.forEach(payment => pmtInf.appendChild(payment.toXML(doc)))
RECURSIVE transactionsToXML(_, _, _, _)
transactionsToXML(enabled, heap, refs, nodes) ==
  IF refs = <<>> THEN [error |-> NoError, nodes |-> nodes]
  ELSE LET own == transactionToXML(enabled, heap[Head(refs)])
       IN IF own.error # NoError THEN [error |-> own.error, nodes |-> <<>>]
          ELSE transactionsToXML(enabled, heap, Tail(refs), Append(nodes, own.node))

\* SepaPaymentInfo.toXML(doc)
paymentInfoToXML(enabled, pi, heap) ==
  LET err == IF enabled THEN validatePaymentInfo(pi) ELSE NoError
      date == IF pi.method = PaymentInfoTypes.DirectDebit
              THEN pi.collectionDate ELSE pi.requestedExecutionDate
  IN IF err # NoError THEN [error |-> err, node |-> NoXml]
     ELSE IF date # "date" THEN [error |-> NullHasNoToISOString, node |-> NoXml]
     ELSE LET own == transactionsToXML(enabled, heap, pi.payments, paymentInfoHead(pi))
          IN IF own.error # NoError THEN [error |-> own.error, node |-> NoXml]
             ELSE [error |-> NoError, node |-> Element("PmtInf", <<>>, own.nodes)]

\* this.paymentInfo.forEach(paymentInfo => rootElement.appendChild(paymentInfo.toXML(document)))
RECURSIVE paymentInfosToXML(_, _, _, _, _)
paymentInfosToXML(enabled, piHeap, txHeap, refs, nodes) ==
  IF refs = <<>> THEN [error |-> NoError, nodes |-> nodes]
  ELSE LET own == paymentInfoToXML(enabled, piHeap[Head(refs)], txHeap)
       IN IF own.error # NoError THEN [error |-> own.error, nodes |-> <<>>]
          ELSE paymentInfosToXML(enabled, piHeap, txHeap, Tail(refs), Append(nodes, own.node))

\* SepaDocument.toXML of lib/index.js: normalize(), then the tree.
switchedDocumentToXML(enabled, hdr, piHeap, txHeap, refs) ==
  LET normalized == normalizePaymentInfos(piHeap, txHeap, refs)
      totals == foldTotals(normalized, refs)
      header == [hdr EXCEPT !.controlSum = totals.controlSum,
                            !.transactionCount = totals.transactionCount]
  IN IF header.created # "date"
     THEN [grpHdr |-> header, pis |-> normalized, error |-> CreatedNotADate, xml |-> NoXml]
     ELSE LET blocks == paymentInfosToXML(enabled, normalized, txHeap, refs,
                                          <<groupHeaderNode(header)>>)
          IN [grpHdr |-> header, pis |-> normalized, error |-> blocks.error,
              xml |-> IF blocks.error # NoError THEN NoXml
                      ELSE Element("Document", <<>>,
                                   <<Element(typeOf(hdr.painFormat), <<>>, blocks.nodes)>>)]

\* Mutant: only null and undefined switch the validation off.
toBooleanOfNullOnly(value) == value.t # "null"

\* !!value
toBoolean(value) == truthy(value)

\* SEPA.enableValidations(...args): the function has one parameter, enabled.
EnableValidations(args) ==
  /\ validationsEnabled' = toBoolean(args[1])
  /\ switchArgs' = args
  /\ outcome' = NoResult
  /\ UNCHANGED <<grpHdr, idSeparator, paymentInfo, pis, txs, inOrder>>
  /\ UNCHANGED csVars

\* info.sequenceType = value
AssignSequenceType(p, value) ==
  /\ p \in DOMAIN pis
  /\ pis' = [pis EXCEPT ![p].sequenceType = value]
  /\ outcome' = NoResult
  /\ UNCHANGED <<grpHdr, idSeparator, paymentInfo, txs, inOrder>>
  /\ UNCHANGED <<csVars, switchVars>>

\* doc.toXML() / doc.toString() of lib/index.js.
SwitchedSerialize ==
  /\ \E out \in {switchedDocumentToXML(validationsEnabled, grpHdr, pis, txs, paymentInfo)} :
        /\ grpHdr' = out.grpHdr
        /\ pis' = out.pis
        /\ outcome' = [op |-> "serialize", error |-> out.error, xml |-> out.xml]
  /\ UNCHANGED <<idSeparator, paymentInfo, txs, inOrder>>
  /\ UNCHANGED <<csVars, switchVars>>

\* The calls of enableValidations: (true), (false), (true, false), (0) and ('no').
SwitchCalls ==
  {<<Bool(TRUE)>>, <<Bool(FALSE)>>, <<Bool(TRUE), Bool(FALSE)>>,
   <<Num(0)>>, <<Str(<<110, 111>>)>>}

\* Transactions: valid, with the end-to-end id 'O' with diaeresis alone or
\* after a letter, with the amount 0, or with an IBAN whose checksum is wrong.
SwitchCases ==
  {TxBase, [TxBase EXCEPT !.end2endId = <<214>>], [TxBase EXCEPT !.end2endId = <<97, 214>>],
   [TxBase EXCEPT !.amount = Amount(0, 0)], [TxBase EXCEPT !.iban = BadChecksumIBAN]}

UnknownSequenceType == "XXXX"

\* The caller builds a document of one block.
NextSwitch ==
  \/ \E iban \in {OwnIBAN, BadChecksumIBAN} : pis = <<>> /\ CreatePaymentInfo(<<>>, iban, OwnBIC)
  \/ \E p \in 1..MaxPaymentInfos : AssignSequenceType(p, UnknownSequenceType)
  \/ \E p \in (1..MaxPaymentInfos) \ Range(paymentInfo) : AddPaymentInfo(p)
  \/ \E p \in 1..MaxPaymentInfos, fields \in SwitchCases : CreateTransactionWith(p, fields)
  \/ \E p \in 1..MaxPaymentInfos, t \in NotYetAdded : AddTransaction(p, t)
  \/ \E args \in SwitchCalls : EnableValidations(args)
  \/ SwitchedSerialize

SpecSwitch == DocInitAssigned /\ [][NextSwitch]_vars

(***************************************************************************)
(* Claims about the checksum engine (under SpecChecksum)                   *)
(***************************************************************************)
IsLetter(c) == c \in Upper \/ c \in Lower
IsAlnum(c) == c \in Digit \/ IsLetter(c)
AllAlnum(s) == \A i \in 1..Len(s) : IsAlnum(s[i])

\* A two-letter country code, two check characters, a non-empty alphanumeric account.
IbanShaped(x) ==
  /\ Len(x) >= 5
  /\ IsLetter(x[1]) /\ IsLetter(x[2])
  /\ AllAlnum(substrFrom(x, 4))

\* A two-letter country code, two check characters, a three-character business
\* code and a non-empty alphanumeric national id.
CreditorIdShaped(x) ==
  /\ Len(x) >= 8
  /\ IsLetter(x[1]) /\ IsLetter(x[2])
  /\ AllAlnum(substrFrom(x, 4))

\* C1: for every IBAN-shaped x (whatever its two check characters),
\* checksumIBAN(x) has the length of x, carries two decimal check digits, and
\* validateIBAN accepts it.
C1_ChecksumIBANValidates ==
  (lastOp = "checksumIBAN" /\ IbanShaped(arg)) =>
    /\ Len(cur) = Len(arg)
    /\ cur[3] \in Digit /\ cur[4] \in Digit
    /\ asked = "iban" => verdict = "true"

\* C1 witness: an input with non-digit check characters and a letter in the
\* account part has been corrected and then accepted.
C1_Witness ==
  /\ lastOp = "checksumIBAN" /\ IbanShaped(arg)
  /\ arg[3] \notin Digit
  /\ \E i \in 5..Len(arg) : IsLetter(arg[i])
  /\ asked = "iban" /\ verdict = "true"

\* Two uppercase letters followed by two digits.
StartsWithCountryAndCheckDigits(s) ==
  /\ Len(s) >= 4
  /\ s[1] \in Upper /\ s[2] \in Upper
  /\ s[3] \in Digit /\ s[4] \in Digit

\* C2: validateIBAN returns false for every string that does not start with two
\* uppercase letters followed by two digits.
C2_RejectsMalformedPrefix ==
  (asked = "iban" /\ ~StartsWithCountryAndCheckDigits(cur)) => verdict = "false"

\* C3: an IBAN that validateIBAN accepted is rejected once exactly one of its
\* decimal digits has been replaced by a different decimal digit.
C3_SingleDigitErrorRejected ==
  (lastOp = "corruptDigit" /\ asked = "iban") => verdict = "false"

\* C3 witness: a digit of the account part (not a check digit) was replaced and
\* the outcome was rejected.
C3_Witness ==
  /\ lastOp = "corruptDigit" /\ asked = "iban" /\ verdict = "false"
  /\ \E i \in 5..Len(cur) : cur[i] # arg[i]

\* C4: for every creditor-id-shaped x, checksumCreditorID(x) differs from x at
\* most in the two check characters (indices 2-3, 0-based) and
\* validateCreditorID accepts it.
C4_ChecksumCreditorIDValidates ==
  (lastOp = "checksumCreditorID" /\ CreditorIdShaped(arg)) =>
    /\ Len(cur) = Len(arg)
    /\ \A i \in 1..Len(arg) : i \notin {3, 4} => cur[i] = arg[i]
    /\ asked = "cid" => verdict = "true"

\* C4 witness: a creditor id with wrong check characters was corrected and accepted.
C4_Witness ==
  /\ lastOp = "checksumCreditorID" /\ CreditorIdShaped(arg)
  /\ cur # arg
  /\ asked = "cid" /\ verdict = "true"
(***************************************************************************)
(* Claims about the totals of a serialized document (under SpecTotals)     *)
(***************************************************************************)
Serialized == outcome.op = "serialize"
Returned == Serialized /\ outcome.error = NoError

\* The transactions of the attached blocks, block after block.
RECURSIVE AttachedAmounts(_)
AttachedAmounts(refs) ==
  IF refs = <<>> THEN <<>>
  ELSE [i \in DOMAIN pis[Head(refs)].payments |-> txs[pis[Head(refs)].payments[i]].amount]
         \o AttachedAmounts(Tail(refs))

RECURSIVE SumOf(_)
SumOf(amounts) ==
  IF amounts = <<>> THEN Amount(0, 0) ELSE amountAdd(Head(amounts), SumOf(Tail(amounts)))

\* The text of the GrpHdr child named tag in the tree just returned.
HeaderText(tag) ==
  LET header == outcome.xml.kids[1].kids[1]
      named == SelectSeq(header.kids, LAMBDA kid : kid.tag = tag)
  IN named[1].text

\* C5: after toXML / toString returns, the header count and sum are those of the
\* attached transactions, whatever the caller had written there, and NbOfTxs
\* and CtrlSum of GrpHdr carry these values.
C5_TotalsRecomputedAndEmitted ==
  Returned =>
    LET amounts == AttachedAmounts(paymentInfo)
    IN /\ grpHdr.transactionCount = Len(amounts)
       /\ grpHdr.controlSum = SumOf(amounts)
       /\ HeaderText("NbOfTxs") = numberToString(Len(amounts))
       /\ HeaderText("CtrlSum") = toFixed2(SumOf(amounts))

\* C9: serializing a document with an attached block that has no transaction
\* raises an error and returns no tree.
C9_EmptyPaymentInfoRejected ==
  (Serialized /\ \E i \in DOMAIN paymentInfo : pis[paymentInfo[i]].payments = <<>>)
    => (outcome.error # NoError /\ outcome.xml = NoXml)

(***************************************************************************)
(* Claims about ids (under SpecIds)                                        *)
(***************************************************************************)
\* The step is a serialization.
Serializing == outcome'.op = "serialize"

\* The id addPaymentInfo / addTransaction is to give: parent + separator + the
\* id the object had, or the position when it had none.
ExpectedId(parentId, oldId, position) ==
  IF oldId # <<>>
  THEN parentId \o idSeparator \o oldId
  ELSE parentId \o idSeparator \o numberToString(position)

AddPaymentInfoDone ==
  paymentInfo' # paymentInfo =>
    LET p == paymentInfo'[Len(paymentInfo')]
    IN /\ paymentInfo' = Append(paymentInfo, p)
       /\ pis'[p].id = ExpectedId(grpHdr.id, pis[p].id, Len(paymentInfo))

AddTransactionDone ==
  \A p \in DOMAIN pis :
    pis'[p].payments # pis[p].payments =>
      LET t == pis'[p].payments[Len(pis'[p].payments)]
      IN /\ pis'[p].payments = Append(pis[p].payments, t)
         /\ txs'[t].id = ExpectedId(pis[p].id, txs[t].id, Len(pis[p].payments))

\* C6: addPaymentInfo gives the block the id grpHdr.id + separator + (its id, or
\* the number of blocks attached before) and appends it; addTransaction does the
\* same with the block's id and its transaction count; the separator is the one
\* last set.
C6_AddAssignsChildId == [][AddPaymentInfoDone /\ AddTransactionDone]_vars

\* C6 witness: after the separator was changed to "-", a second block without
\* an id of its own became "M-1" and a transaction "B" in it became "M-1-B".
C6_Witness ==
  /\ idSeparator = <<45>>
  /\ Len(paymentInfo) = 2
  /\ pis[paymentInfo[2]].id = <<77, 45, 49>>
  /\ \E i \in DOMAIN pis[paymentInfo[2]].payments :
       txs[pis[paymentInfo[2]].payments[i]].id = <<77, 45, 49, 45, 66>>

\* Every attached block's id starts with prefixOf(header id + separator), every
\* attached transaction's with prefixOf(block id + separator), read through view.
Hierarchical(view(_)) ==
  \A i \in DOMAIN paymentInfo :
    LET pi == pis[paymentInfo[i]]
    IN /\ startsWith(view(pi.id), view(grpHdr.id \o idSeparator))
       /\ \A j \in DOMAIN pi.payments :
            startsWith(view(txs[pi.payments[j]].id), view(pi.id \o idSeparator))

AsWritten(id) == id

\* C7 as stated: whatever the order of the calls, when the document is
\* serialized every attached block's id is grpHdr.id + separator + suffix and
\* every attached transaction's id is its block's id + separator + suffix.
C7_HierarchicalInAnyOrder == [][Serializing => Hierarchical(AsWritten)]_vars

\* C7 amended: when the caller builds top-down (header id and separator settled
\* before the first add, each block attached once and before it is given
\* transactions, each transaction added once), then at serialization the
\* sanitized id of every attached block is the sanitized header id + separator
\* followed by a suffix, and likewise every transaction under its block.
C7_HierarchicalWhenTopDown ==
  [][(Serializing /\ inOrder) => Hierarchical(filterOutInvalidCharacters)]_vars

\* C7 witness: a top-down document with separator "-" was serialized: block
\* "M-A" and its transaction "M-A-0" came out as "MA" and "MA0".
C7_Witness ==
  /\ Returned /\ inOrder
  /\ \E i \in DOMAIN paymentInfo :
       /\ pis[paymentInfo[i]].id = <<77, 65>>
       /\ \E j \in DOMAIN pis[paymentInfo[i]].payments :
            txs[pis[paymentInfo[i]].payments[j]].id = <<77, 65, 48>>

\* C8 as stated: no step changes the id of an attached block or of a
\* transaction a block holds.
C8_AssignedIdsNeverChange ==
  [][/\ \A p \in Range(paymentInfo) : pis'[p].id = pis[p].id
     /\ \A t \in AddedTransactions : txs'[t].id = txs[t].id]_vars

\* C8 amended: the id of an attached block or held transaction changes in two
\* ways only: a serialization replaces it by its sanitized form, and adding the
\* same object again prefixes it again; adding another object, setIDSeparator
\* and normalize leave it as it is.
C8_AssignedIdsChangeOnlyBySanitizingOrReAdd ==
  [][/\ \A p \in Range(paymentInfo) :
          pis'[p].id # pis[p].id =>
            \/ Serializing /\ pis'[p].id = filterOutInvalidCharacters(pis[p].id)
            \/ /\ paymentInfo' = Append(paymentInfo, p)
               /\ pis'[p].id = grpHdr.id \o idSeparator \o pis[p].id
     /\ \A t \in AddedTransactions :
          txs'[t].id # txs[t].id =>
            \/ Serializing /\ txs'[t].id = filterOutInvalidCharacters(txs[t].id)
            \/ \E p \in DOMAIN pis :
                 /\ pis'[p].payments = Append(pis[p].payments, t)
                 /\ txs'[t].id = pis[p].id \o idSeparator \o txs[t].id]_vars

\* C8 witness: an attached block was added a second time and then serialized
\* with its transaction: the ids "M-M-A" and "M-A-0" came out as "MMA" and "MA0".
C8_Witness ==
  /\ Returned
  /\ \E p \in Range(paymentInfo) :
       /\ paymentInfo = <<p, p>>
       /\ pis[p].id = <<77, 77, 65>>
       /\ \E j \in DOMAIN pis[p].payments : txs[pis[p].payments[j]].id = <<77, 65, 48>>

(***************************************************************************)
(* Claims about the validation of a block (under SpecValidate)             *)
(***************************************************************************)
\* The country letters of a BIC (index 4-5) differ from those of the IBAN.
CountryDiffers(pi) ==
  LET bic == ownBIC(pi)
      iban == ownIBAN(pi)
  IN bic # <<>> /\ (Len(bic) < 6 \/ <<bic[5], bic[6]>> # <<iban[1], iban[2]>>)

FirstBlock == pis[paymentInfo[1]]

AttachedTransactions ==
  UNION {Range(pis[paymentInfo[i]].payments) : i \in DOMAIN paymentInfo}

\* The country letters of the other party's BIC (index 4-5) differ from those
\* of its IBAN.
TxCountryDiffers(tx) ==
  LET bic == otherBIC(tx)
      iban == otherIBAN(tx)
  IN bic # <<>> /\ (Len(bic) < 6 \/ <<bic[5], bic[6]>> # <<iban[1], iban[2]>>)

\* C11: serializing raises whenever an attached transaction's other-party BIC
\* is non-empty and names another country than that party's IBAN.
C11_TxCountryMismatchRaises ==
  (Serialized /\ \E t \in AttachedTransactions : TxCountryDiffers(txs[t]))
    => outcome.error # NoError

\* 0.01 <= a <= 999999999.99 with at most two fractional digits.
ValidAmount(a) ==
  /\ ~amountLess(a, Amount(0, 10))
  /\ ~amountLess(Amount(999999999, 990), a)
  /\ a.m % 10 = 0

\* Everything but the amount (and the BIC) is as in the valid fixture.
ValidButAmount(tx) ==
  /\ otherIBAN(tx) = OtherIBAN
  /\ tx.end2endId = End2EndId
  /\ tx.mandateId = MandateId
  /\ tx.mandateSignatureDate = "date"

AmountErrors == {"amount does not match range", "amount has too many fractional digits"}

\* C12: serializing raises as soon as an attached transaction's amount is
\* outside 0.01 .. 999999999.99 or has more than two fractional digits, and when
\* the attached transactions are valid but for their amounts, it raises (with
\* one of the two amount errors) exactly when one of the amounts is such.
C12_AmountAcceptedIffInRangeWithTwoDigits ==
  Serialized =>
    /\ (\E t \in AttachedTransactions : ~ValidAmount(txs[t].amount))
          => outcome.error # NoError
    /\ (\A t \in AttachedTransactions : ValidButAmount(txs[t]))
          => /\ outcome.error \in AmountErrors \cup {NoError}
             /\ outcome.error = NoError
                  <=> \A t \in AttachedTransactions : ValidAmount(txs[t].amount)

\* C12 witness: a block holding 999999999.99 and then 50.234 was rejected for
\* the fractional digits of the second.
C12_Witness ==
  /\ Serialized /\ outcome.error = "amount has too many fractional digits"
  /\ \E i \in DOMAIN paymentInfo :
       LET payments == pis[paymentInfo[i]].payments
       IN /\ Len(payments) = 2
          /\ txs[payments[1]].amount = Amount(999999999, 990)
          /\ txs[payments[2]].amount = Amount(50, 234)

\* Everything but the mandate is valid.
ValidButMandate(tx) ==
  /\ otherIBAN(tx) = OtherIBAN
  /\ tx.end2endId = End2EndId
  /\ ValidAmount(tx.amount)

\* C19: a credit-transfer document whose transactions are valid and carry no
\* mandate id and no mandate signature date serializes without an error.
C19_TransferNeedsNoMandate ==
  ( /\ Serialized
    /\ isTransferFormat(grpHdr.painFormat)
    /\ AttachedTransactions # {}
    /\ \A t \in AttachedTransactions :
         /\ ValidButMandate(txs[t])
         /\ txs[t].mandateId = <<>>
         /\ txs[t].mandateSignatureDate = "null" )
    => outcome.error = NoError

\* The children of node named tag, in document order.
Children(node, tag) == SelectSeq(node.kids, LAMBDA kid : kid.tag = tag)

\* The element the tree just returned holds for the j-th transaction of the
\* i-th attached block.
TransactionElement(i, j) ==
  LET block == outcome.xml.kids[1].kids[i + 1]
      tx == txs[pis[paymentInfo[i]].payments[j]]
  IN Children(block, tx.type)[j]

\* C20: for every serialized transaction whose party (creditor for a transfer,
\* debtor for a direct debit) has street, city and country set, the party's
\* element (Cdtr or Dbtr) holds one PstlAdr made of Ctry = that country and two
\* AdrLine holding that street and that city, in this order.
C20_PostalAddressOfOtherParty ==
  Returned =>
    \A i \in DOMAIN paymentInfo :
      \A j \in DOMAIN pis[paymentInfo[i]].payments :
        LET tx == txs[pis[paymentInfo[i]].payments[j]]
            party == IF tx.type = TransactionTypes.Transfer THEN "Cdtr" ELSE "Dbtr"
            address == Children(Children(TransactionElement(i, j), party)[1], "PstlAdr")
        IN (truthy(otherStreet(tx)) /\ truthy(otherCity(tx)) /\ truthy(otherCountry(tx)))
             => /\ Len(address) = 1
                /\ [k \in DOMAIN address[1].kids |-> address[1].kids[k].tag]
                     = <<"Ctry", "AdrLine", "AdrLine">>
                /\ [k \in DOMAIN address[1].kids |-> address[1].kids[k].text]
                     = <<otherCountry(tx).v, otherStreet(tx).v, otherCity(tx).v>>

(***************************************************************************)
(* Claims about the construction of a document (under SpecFormats)         *)
(***************************************************************************)
\* C17: no document exists whose format is not a key of the format table: its
\* message root tag is never undefined.
C17_UnknownFormatRaisesAtConstruction ==
  typeOf(grpHdr.painFormat) # Undefined

(***************************************************************************)
(* Claims about the arguments of the add methods (under SpecObjects)       *)
(***************************************************************************)
\* The objects that are no block, and those that are no transaction.
NoPaymentInfos == {object \in Objects : object.class # "SepaPaymentInfo"}
NoTransactions == {object \in Objects : object.class # "SepaTransaction"}

\* The call threw error and changed no object and no list.
Rejected(error) ==
  /\ outcome'.error = error
  /\ UNCHANGED <<grpHdr, paymentInfo, pis, txs>>

\* C18: addPaymentInfo with an object that is no SepaPaymentInfo, and
\* addTransaction with an object that is no SepaTransaction, throw their error
\* and leave the document's list, every block (its list and id), every
\* transaction and so the argument as they were.
C18_WrongClassRejected ==
  [][ /\ \A object \in NoPaymentInfos :
           AddPaymentInfoOf(object) => Rejected(NotPaymentInfo)
      /\ \A p \in DOMAIN pis, object \in NoTransactions :
           AddTransactionOf(p, object) => Rejected(NotTransaction) ]_vars

\* C18 witness: a block holding a transaction was just handed another block as
\* a transaction and refused it.
C18_Witness ==
  /\ outcome.op = "addTransaction"
  /\ outcome.error = NotTransaction
  /\ paymentInfo # <<>>
  /\ \E p \in DOMAIN pis : pis[p].payments # <<>>
  /\ Len(pis) > 1

(***************************************************************************)
(* Claims about the end-to-end id (under SpecEndToEnd)                     *)
(***************************************************************************)
\* The string holds a character outside SEPA id charset 1.
OutsideSet1(id) == \E i \in DOMAIN id : id[i] \notin SepaIdSet1Chars

\* C13: serializing a document raises whenever the end2endId of some attached
\* transaction holds a character outside SEPA id charset 1, at any position and
\* whatever the other characters are.
C13_CharOutsideSet1Raises ==
  [][(Serializing /\ \E t \in AttachedTransactions : OutsideSet1(txs[t].end2endId))
       => outcome'.error # NoError]_vars

\* C14: serializing a document raises whenever the end2endId of some attached
\* transaction is longer than 35 characters.
C14_LongEndToEndIdRaises ==
  [][(Serializing /\ \E t \in AttachedTransactions :
                        Len(txs[t].end2endId) > SepaIdMaxLength)
       => outcome'.error # NoError]_vars

(***************************************************************************)
(* Claims about the validation switch (under SpecSwitch)                   *)
(***************************************************************************)
\* The attached blocks.
AttachedBlocks == {paymentInfo[i] : i \in DOMAIN paymentInfo}

\* Some attached entity has an IBAN with a wrong checksum.
BadIbanAttached ==
  \/ \E p \in AttachedBlocks : ownIBAN(pis[p]) = BadChecksumIBAN
  \/ \E t \in AttachedTransactions : otherIBAN(txs[t]) = BadChecksumIBAN

\* Some attached entity has an invalid IBAN, an amount out of range or an
\* unknown sequence type.
Malformed ==
  \/ BadIbanAttached
  \/ \E p \in AttachedBlocks : pis[p].sequenceType = UnknownSequenceType
  \/ \E t \in AttachedTransactions : ~ValidAmount(txs[t].amount)

\* The id without the characters outside SEPA id charset 1.
Stripped(id) == SelectSeq(id, LAMBDA c : c \in SepaIdSet1Chars)

\* The text of PmtId/EndToEndId of the j-th transaction of the i-th block.
EndToEndIdOf(i, j) ==
  Children(Children(TransactionElement(i, j), "PmtId")[1], "EndToEndId")[1].text

\* C15: after enableValidations(true, false), a document that is valid but for
\* characters outside the charset in its end-to-end ids serializes without an
\* error and every EndToEndId is the id without these characters, while a
\* document with an invalid IBAN still raises.
C15_CharsetValidationOff ==
  (Serialized /\ switchArgs = <<Bool(TRUE), Bool(FALSE)>>) =>
    IF BadIbanAttached THEN outcome.error # NoError
    ELSE (~Malformed /\ AttachedBlocks # {}
            /\ \A p \in AttachedBlocks : pis[p].payments # <<>>)
           => /\ outcome.error = NoError
              /\ \A i \in DOMAIN paymentInfo :
                   \A j \in DOMAIN pis[paymentInfo[i]].payments :
                     EndToEndIdOf(i, j) = Stripped(txs[pis[paymentInfo[i]].payments[j]].end2endId)

\* C16: the switch is on at first; a call of enableValidations leaves it at
\* the boolean value of its first argument; while it is off, serializing raises
\* no error, whatever the attached entities hold and whenever they were made;
\* while it is on, serializing a document with a malformed attached entity
\* raises and returns no tree.
C16_SwitchIsGlobalAndCoerced ==
  /\ validationsEnabled = TRUE
  /\ [](switchArgs # NoArgs => validationsEnabled = truthy(switchArgs[1]))
  /\ []((Serialized /\ ~validationsEnabled) => outcome.error = NoError)
  /\ []((Serialized /\ validationsEnabled /\ Malformed)
         => (outcome.error # NoError /\ outcome.xml = NoXml))

\* C16 witness: after enableValidations(0), a block with an unknown sequence
\* type and a wrong IBAN, holding a transaction of amount 0, was serialized
\* without an error.
C16_Witness ==
  /\ Serialized
  /\ switchArgs = <<Num(0)>>
  /\ ~validationsEnabled
  /\ outcome.error = NoError
  /\ \E p \in AttachedBlocks :
       /\ pis[p].sequenceType = UnknownSequenceType
       /\ ownIBAN(pis[p]) = BadChecksumIBAN
       /\ \E j \in DOMAIN pis[p].payments : txs[pis[p].payments[j]].amount = Amount(0, 0)

(***************************************************************************)
(* The helpers of lib/utils/utils.js                                       *)
(***************************************************************************)
Alphanumeric == Digit \cup Upper \cup Lower

\* C27: replaceChars fails for every input string holding a character other
\* than a letter or a digit: a call that returned was given letters and
\* digits only.
C27_ReplaceCharsRejectsNonAlphanumeric ==
  lastOp = "replaceChars" => \A i \in DOMAIN arg : arg[i] \in Alphanumeric

\* The set the specification permits: A-Z a-z 0-9 space . + ? / : ( ) ,
SpecifiedChars == Alphanumeric \cup {32, 46, 43, 63, 47, 58, 40, 41, 44}
IsSpecified(c) == c \in SpecifiedChars

\* C22: filterOutInvalidCharacters(s) is s with exactly the characters outside
\* A-Z a-z 0-9 space . + ? / : ( ) , removed, in order.
C22_FilterKeepsSpecifiedCharsOnly ==
  lastOp = "filterOutInvalidCharacters" => cur = SelectSeq(arg, IsSpecified)

\* 10^k mod 97, and the remainder of a digit string as the weighted sum of
\* its digits (no running remainder).
RECURSIVE PowerOfTenMod97(_)
PowerOfTenMod97(k) == IF k = 0 THEN 1 ELSE (PowerOfTenMod97(k - 1) * 10) % 97

RECURSIVE WeightedSum(_)
WeightedSum(digits) ==
  IF digits = <<>> THEN 0
  ELSE (Head(digits) - 48) * PowerOfTenMod97(Len(digits) - 1) + WeightedSum(Tail(digits))

IsDigitString(s) == s # <<>> /\ \A i \in DOMAIN s : s[i] \in Digit

\* C28: for a non-empty string of decimal digits modulo97 returns the
\* remainder of the denoted integer divided by 97, in 0..96, and the value
\* reduced at each step (the remainder so far times ten plus the digit) is
\* at most 969.
C28_Modulo97IsRemainder ==
  (lastOp = "modulo97" /\ IsDigitString(cur)) =>
    /\ remainder = WeightedSum(cur) % 97
    /\ remainder \in 0..96
    /\ \A k \in DOMAIN cur :
         modulo97(SubSeq(cur, 1, k - 1)) * 10 + (cur[k] - 48) <= 969

C28_Witness ==
  lastOp = "modulo97" /\ cur = LongNumber /\ remainder = 49

\* The strings that differ from x at most at the positions 2 and 3 (0-based).
CheckCharVariants(x) ==
  IF Len(x) >= 4
    THEN {[x EXCEPT ![3] = c, ![4] = d] : c \in UtilChars, d \in UtilChars}
  ELSE IF Len(x) = 3 THEN {[x EXCEPT ![3] = c] : c \in UtilChars}
  ELSE {x}

\* The characters at positions 2-3 are two digits denoting 02..98.
CheckDigitsInRange(x) ==
  /\ Len(x) >= 4
  /\ x[3] \in Digit /\ x[4] \in Digit
  /\ (x[3] - 48) * 10 + (x[4] - 48) \in 2..98

IgnoresCheckCharacters ==
  lastOp = "checksumIBAN" => \A y \in CheckCharVariants(arg) : checksumIBAN(y) = cur

FixesValidIbans ==
  (lastOp = "checksumIBAN" /\ validateIBAN(arg) /\ CheckDigitsInRange(arg)) => cur = arg

\* C29 as stated: checksumIBAN ignores the characters at positions 2-3, is
\* idempotent for every x, and returns every valid IBAN with check digits
\* 02..98 unchanged.
C29_ChecksumIbanIdempotent ==
  /\ IgnoresCheckCharacters
  /\ lastOp = "checksumIBAN again" => cur = checksumIBAN(arg)
  /\ FixesValidIbans

\* C29 amended: idempotent for every x of at least two characters.
C29_ChecksumIbanIdempotentFromTwoChars ==
  /\ IgnoresCheckCharacters
  /\ (lastOp = "checksumIBAN again" /\ Len(arg) >= 2) => cur = checksumIBAN(arg)
  /\ FixesValidIbans

C29_Witness ==
  /\ lastOp = "checksumIBAN again"
  /\ arg = [TestIban EXCEPT ![3] = 48, ![4] = 48]
  /\ cur = TestIban

(***************************************************************************)
(* The group header and the order of the document tree                     *)
(***************************************************************************)
\* The GrpHdr element of the returned tree.
GrpHdrElement == outcome.xml.kids[1].kids[1]

Tags(nodes) == [i \in DOMAIN nodes |-> nodes[i].tag]

\* The formats whose last two characters, plus 1 for pain.008, give 2.
IsVersion2 == grpHdr.painFormat \in {Pain001v2, Pain008v1}

OrganisationIdSet == grpHdr.organisationId.t = "string" /\ grpHdr.organisationId.v # <<>>

\* C24: GrpHdr's children are MsgId, CreDtTm, [BtchBookg], NbOfTxs, CtrlSum,
\* [Grpg], InitgPty, with BtchBookg and Grpg exactly for the formats of
\* structural version 2, and InitgPty holds Nm and then Id/OrgId/Othr/Id
\* exactly when organisationId is set.
C24_GroupHeaderChildren ==
  Returned =>
    /\ GrpHdrElement.tag = "GrpHdr"
    /\ Tags(GrpHdrElement.kids) =
         <<"MsgId", "CreDtTm">> \o (IF IsVersion2 THEN <<"BtchBookg">> ELSE <<>>)
         \o <<"NbOfTxs", "CtrlSum">> \o (IF IsVersion2 THEN <<"Grpg">> ELSE <<>>)
         \o <<"InitgPty">>
    /\ LET party == GrpHdrElement.kids[Len(GrpHdrElement.kids)]
       IN IF OrganisationIdSet
          THEN /\ Tags(party.kids) = <<"Nm", "Id">>
               /\ Tags(party.kids[2].kids) = <<"OrgId">>
               /\ Tags(party.kids[2].kids[1].kids) = <<"Othr">>
               /\ Tags(party.kids[2].kids[1].kids[1].kids) = <<"Id">>
               /\ party.kids[2].kids[1].kids[1].kids[1].text = grpHdr.organisationId.v
          ELSE Tags(party.kids) = <<"Nm">>

C24_Witness ==
  /\ Returned
  /\ grpHdr.painFormat = Pain008v1
  /\ OrganisationIdSet
  /\ Len(GrpHdrElement.kids) = 7

\* The text of the first descendant of node with the given tag, depth first
\* (PmtInfId of a PmtInf, InstrId and InstdAmt of a transaction element).
\* NotFound is no text: no element with the tag.
NotFound == <<0 - 1>>

RECURSIVE TextOf(_, _)
RECURSIVE FirstTextOf(_, _)
FirstTextOf(nodes, tag) ==
  IF nodes = <<>> THEN NotFound
  ELSE LET found == TextOf(Head(nodes), tag)
       IN IF found # NotFound THEN found ELSE FirstTextOf(Tail(nodes), tag)

TextOf(node, tag) == IF node.tag = tag THEN node.text ELSE FirstTextOf(node.kids, tag)

TransactionTags == {TransactionTypes.DirectDebit, TransactionTypes.Transfer}

\* The PmtInf element block is the one of pi: its id, and its last children
\* are the elements of pi's transactions, in the order of pi.payments.
IsBlockOf(block, pi) ==
  LET n == Len(pi.payments)
      first == Len(block.kids) - n
  IN /\ block.tag = "PmtInf"
     /\ TextOf(block, "PmtInfId") = pi.id
     /\ first >= 0
     /\ \A j \in 1..first : block.kids[j].tag \notin TransactionTags
     /\ \A j \in 1..n :
          LET element == block.kids[first + j]
              tx == txs[pi.payments[j]]
          IN /\ element.tag = tx.type
             /\ TextOf(element, "InstrId") = tx.id
             /\ TextOf(element, "InstdAmt") = toFixed2(tx.amount)

\* C25: the message root has GrpHdr as its first child, then one PmtInf per
\* attached PaymentInfo in the order of the addPaymentInfo calls; in each
\* PmtInf the transaction elements come last, one per attached transaction,
\* in the order of the addTransaction calls.
C25_TreeInInsertionOrder ==
  Returned =>
    LET root == outcome.xml.kids[1]
    IN /\ Len(outcome.xml.kids) = 1
       /\ Len(root.kids) = 1 + Len(paymentInfo)
       /\ root.kids[1].tag = "GrpHdr"
       /\ \A i \in DOMAIN paymentInfo : IsBlockOf(root.kids[i + 1], pis[paymentInfo[i]])

\* C25 witness: two blocks, the second holding 2.50 and then 1.00.
C25_Witness ==
  /\ Returned
  /\ Len(paymentInfo) = 2
  /\ pis[paymentInfo[1]].id # pis[paymentInfo[2]].id
  /\ Len(pis[paymentInfo[2]].payments) = 2
  /\ txs[pis[paymentInfo[2]].payments[1]].amount = Amount(2, 500)
  /\ txs[pis[paymentInfo[2]].payments[2]].amount = Amount(1, 0)

(***************************************************************************)
(* The totals of a block                                                   *)
(***************************************************************************)
\* The sum of the amounts of the transactions attached to pis[p].
SumOfBlock(p) == SumOf([i \in DOMAIN pis[p].payments |-> txs[pis[p].payments[i]].amount])

\* A PaymentInfo.toXML call of the caller has returned.
BlockReturned == outcome.op = "paymentInfo.toXML" /\ outcome.error = NoError

\* The field and the emitted CtrlSum of pis[p] are the sum of its amounts.
BlockTotalsRight(p, element) ==
  /\ pis[p].controlSum = SumOfBlock(p)
  /\ TextOf(element, "CtrlSum") = toFixed2(SumOfBlock(p))

CountIsLength == \A p \in DOMAIN pis : transactionCount(pis[p]) = Len(pis[p].payments)

ThroughDocument ==
  Returned =>
    \A i \in DOMAIN paymentInfo :
      BlockTotalsRight(paymentInfo[i], outcome.xml.kids[1].kids[i + 1])

\* C26 as stated: whenever a block is serialized, through Document.toXML or by
\* its own toXML, its controlSum and the CtrlSum emitted are the sum of the
\* amounts attached at that moment; transactionCount is the number of
\* attached transactions in every state.
C26_BlockTotalsWheneverSerialized ==
  /\ ThroughDocument
  /\ BlockReturned => BlockTotalsRight(outcome.block, outcome.xml)
  /\ CountIsLength

\* C26 amended: the sum is recomputed by Document.toXML only; the block's own
\* toXML emits the controlSum the block holds.
C26_BlockTotalsThroughDocument ==
  /\ ThroughDocument
  /\ BlockReturned =>
       TextOf(outcome.xml, "CtrlSum") = toFixed2(pis[outcome.block].controlSum)
  /\ CountIsLength

\* C26 witness: a document returned with a block whose sum is 3.50.
C26_Witness ==
  /\ Returned
  /\ \E i \in DOMAIN paymentInfo :
       /\ Len(pis[paymentInfo[i]].payments) = 2
       /\ pis[paymentInfo[i]].controlSum = Amount(3, 500)

(***************************************************************************)
(* The length of the own party's BIC                                       *)
(***************************************************************************)
BicLengths == {0, 8, 11}
OddBic(p) == Len(ownBIC(pis[p])) \notin BicLengths

\* C30: validating a block whose own BIC has a length other than 0, 8 or 11
\* raises, be the block serialized by the document or by its own toXML.
C30_OddBicLengthRaises ==
  /\ (Serialized /\ \E i \in DOMAIN paymentInfo : OddBic(paymentInfo[i]))
       => outcome.error # NoError
  /\ (outcome.op = "paymentInfo.toXML" /\ OddBic(outcome.block))
       => outcome.error # NoError

(***************************************************************************)
(* Sanitizing                                                              *)
(***************************************************************************)
\* First the characters outside the permitted set removed, then the first n kept.
StripThenTruncate(text, n) == SubSeq(SelectSeq(text, IsPermitted), 1,
                                     IF Len(SelectSeq(text, IsPermitted)) < n
                                     THEN Len(SelectSeq(text, IsPermitted)) ELSE n)
StripThenTruncateId(id) == StripThenTruncate(id, SepaIdMaxLength)

\* First the first n characters kept, then the characters outside the set removed.
TruncateThenStrip(text, n) ==
  SelectSeq(SubSeq(text, 1, IF Len(text) < n THEN Len(text) ELSE n), IsPermitted)
Strip(id) == SelectSeq(id, IsPermitted)

\* An address field cut to its first n characters (null stays null).
Cut(value, n) ==
  IF value.t = "string"
  THEN Str(SubSeq(value.v, 1, IF Len(value.v) < n THEN Len(value.v) ELSE n))
  ELSE value

\* The serialization took every sanitized field of every attached block and
\* transaction from its value before the call by Clean (names, remittance
\* information) and CleanId (identifiers), and cut the address fields.
FieldsSanitized(Clean(_, _), CleanId(_)) ==
  \A i \in DOMAIN paymentInfo :
    LET p == paymentInfo[i]
    IN /\ ownName(pis'[p]) = Clean(ownName(pis[p]), MaxNameLength)
       /\ pis'[p].id = CleanId(pis[p].id)
       /\ \A j \in DOMAIN pis[p].payments :
            LET old == txs[pis[p].payments[j]]
                new == txs'[pis[p].payments[j]]
            IN /\ otherName(new) = Clean(otherName(old), MaxNameLength)
               /\ new.remittanceInfo = Clean(old.remittanceInfo, MaxRemittanceLength)
               /\ new.id = CleanId(old.id)
               /\ new.end2endId = CleanId(old.end2endId)
               /\ new.mandateId = CleanId(old.mandateId)
               /\ otherStreet(new) = Cut(otherStreet(old), MaxNameLength)
               /\ otherCity(new) = Cut(otherCity(old), MaxNameLength)
               /\ otherCountry(new) = Cut(otherCountry(old), CountryLength)

SerializedWithoutError == Serializing /\ outcome'.error = NoError

C23_SerializeTwiceSame ==
  [][outcome'.op = "serialize again" =>
       /\ outcome'.error = NoError
       /\ outcome'.xml = outcome.xml
       /\ UNCHANGED <<grpHdr, pis, txs, paymentInfo, idSeparator>>]_vars

\* C23 witness: the second call returned for a document whose transaction
\* name and ids the first call had to sanitize.
C23_Witness ==
  /\ outcome.op = "serialize again" /\ outcome.error = NoError
  /\ \E t \in AttachedTransactions :
       /\ otherName(txs[t]) = Letters(MaxNameLength - 1)
       /\ txs[t].end2endId = <<65, 66>>
       /\ pis[paymentInfo[1]].controlSum = Amount(1, 0)

====
